---- MODULE Spec2Model ----
(***************************************************************************)
(* Project -> Goal -> Task hierarchy of the productivity backend and its   *)
(* time-allocation validation (app/services/time_allocation.py and the     *)
(* Project/Goal/Task repositories).                                        *)
(*                                                                         *)
(* One action is one repository call, run inside its request's session:   *)
(* the ownership lookup, the validators, the field updates and the commit. *)
(*                                                                         *)
(* weekly_hours values are whole hours.  On whole hours up to 168 the      *)
(* double-precision additions and comparisons of the validators are exact, *)
(* so they are the integer operations written here; fractional hours and   *)
(* their rounding are outside this model.                                  *)
(*                                                                         *)
(* An Optional[...] value is a sequence of length 0 (None) or 1.           *)
(*                                                                         *)
(* A date is its day number (date.toordinal() counted from the first day   *)
(* considered), so adding timedelta(days=n) adds n and comparing dates     *)
(* compares numbers.  Chore and habit rows keep the fields that            *)
(* completion reads or writes.                                             *)
(***************************************************************************)
EXTENDS Integers, FiniteSets, Sequences, TLC

\* ------------------------------------------------------------------ bounds
NumUsers == 2
MaxProjects == 1
MaxGoals == 3
MaxTasks == 2
MaxHours == 3
NumRequests == 2
MaxChores == 1
MaxHabits == 1
MaxRecurringItems == 1
MaxDay == 31
MaxDue == 1
MaxFrequencyValue == 2
MaxStreak == 3

\* --------------------------------------------------------- program constants
\* Field(gt=0, le=168) on every weekly_hours
MaxWeeklyHours == 168

Users == 1..NumUsers
ProjectIds == 1..MaxProjects
GoalIds == 1..MaxGoals
TaskIds == 1..MaxTasks

\* Field(gt=0, le=168): what pydantic lets through to the repositories
ValidHours(h) == h > 0 /\ h <= MaxWeeklyHours
HoursInputs == {h \in 0..MaxHours : ValidHours(h)}

None == <<>>
Some(x) == <<x>>
IsNone(o) == Len(o) = 0
Val(o) == o[1]

NOT_STARTED == "Not Started"
COMPLETED == "Completed"
StatusInputs == {COMPLETED}

VARIABLES
    projects,       \* table project: id -> row
    goals,          \* table goal: id -> row
    tasks,          \* table task: id -> row
    nextProjectId,  \* next value of project.id's sequence
    nextGoalId,     \* next value of goal.id's sequence
    nextTaskId,     \* next value of task.id's sequence
    last,           \* the most recent repository call and how it ended
    requests,       \* goal requests in flight: slot -> where the coroutine stands
    chores,         \* table chore: id -> row
    habits,         \* table habit: id -> row
    users           \* table user: id -> row

vars == <<projects, goals, tasks, nextProjectId, nextGoalId, nextTaskId, last,
          requests, chores, habits, users>>

\* what the Project/Goal/Task repository calls leave alone
elsewhere == <<requests, chores, habits, users>>

\* ------------------------------------------------------ exceptions / results
NoDetails ==
    [project_id |-> None, goal_id |-> None, current_allocation |-> None,
     requested_hours |-> None, available_hours |-> None]

\* TimeAllocationExceeded.__init__: a keyword that is None adds no key to details
TimeAllocationExceeded(project_id, goal_id, current_allocation, requested_hours, available_hours) ==
    [error |-> "TimeAllocationExceeded",
     details |-> [project_id |-> project_id, goal_id |-> goal_id,
                  current_allocation |-> current_allocation,
                  requested_hours |-> requested_hours,
                  available_hours |-> available_hours]]

ResourceNotFound == [error |-> "ResourceNotFound", details |-> NoDetails]

Passed == [error |-> "none", details |-> NoDetails]

\* ------------------------------------------------------------- SQL helpers
\* func.sum(col) over the selected rows: NULL (None) when no row is selected
RECURSIVE SumRows(_, _)
SumRows(table, ids) ==
    IF ids = {} THEN 0
    ELSE LET i == CHOOSE x \in ids : TRUE
         IN  table[i].weekly_hours + SumRows(table, ids \ {i})

FuncSum(table, ids) == IF ids = {} THEN None ELSE Some(SumRows(table, ids))

\* `result.scalar() or 0.0`
ScalarOrZero(o) == IF IsNone(o) \/ Val(o) = 0 THEN 0 ELSE Val(o)

\* mutant: the `id != exclude_goal_id` filter is left out
GoalRowsOf_NoExclude(project_id, exclude_goal_id) ==
    {g \in DOMAIN goals : goals[g].project_id = project_id}

\* select(func.sum(Goal.weekly_hours)).where(Goal.project_id == project_id)
\*   [.where(Goal.id != exclude_goal_id) when exclude_goal_id is truthy]
GoalRowsOf(project_id, exclude_goal_id) ==
    {g \in DOMAIN goals :
        /\ goals[g].project_id = project_id
        /\ (IsNone(exclude_goal_id) \/ Val(exclude_goal_id) = 0
              \/ g # Val(exclude_goal_id))}

\* mutant: the `id != exclude_task_id` filter is left out
TaskRowsOf_NoExclude(goal_id, exclude_task_id) ==
    {t \in DOMAIN tasks : tasks[t].goal_id = goal_id}

TaskRowsOf(goal_id, exclude_task_id) ==
    {t \in DOMAIN tasks :
        /\ tasks[t].goal_id = goal_id
        /\ (IsNone(exclude_task_id) \/ Val(exclude_task_id) = 0
              \/ t # Val(exclude_task_id))}

\* --------------------------------------------------- TimeAllocationService
\* mutant: the new hours alone are compared with the project's hours
validate_goal_hours_for_project_ignoring_siblings(project_id, new_goal_hours, exclude_goal_id) ==
    IF project_id \notin DOMAIN projects THEN ResourceNotFound
    ELSE IF new_goal_hours > projects[project_id].weekly_hours
         THEN TimeAllocationExceeded(
                  Some(project_id), None, Some(0), Some(new_goal_hours),
                  Some(projects[project_id].weekly_hours))
         ELSE Passed

\* mutant: `>=` for `>`
validate_goal_hours_for_project_ge(project_id, new_goal_hours, exclude_goal_id) ==
    IF project_id \notin DOMAIN projects THEN ResourceNotFound
    ELSE LET current_goal_hours ==
                 ScalarOrZero(FuncSum(goals, GoalRowsOf(project_id, exclude_goal_id)))
             total_hours == current_goal_hours + new_goal_hours
         IN  IF total_hours >= projects[project_id].weekly_hours
             THEN TimeAllocationExceeded(
                      Some(project_id), None, Some(current_goal_hours),
                      Some(new_goal_hours),
                      Some(projects[project_id].weekly_hours - current_goal_hours))
             ELSE Passed

\* mutant: exclude_goal_id is not passed on to the query
validate_goal_hours_for_project_counting_self(project_id, new_goal_hours, exclude_goal_id) ==
    IF project_id \notin DOMAIN projects THEN ResourceNotFound
    ELSE LET current_goal_hours ==
                 ScalarOrZero(FuncSum(goals, GoalRowsOf(project_id, None)))
             total_hours == current_goal_hours + new_goal_hours
         IN  IF total_hours > projects[project_id].weekly_hours
             THEN TimeAllocationExceeded(
                      Some(project_id), None, Some(current_goal_hours),
                      Some(new_goal_hours),
                      Some(projects[project_id].weekly_hours - current_goal_hours))
             ELSE Passed

validate_goal_hours_for_project(project_id, new_goal_hours, exclude_goal_id) ==
    IF project_id \notin DOMAIN projects THEN ResourceNotFound
    ELSE LET current_goal_hours ==
                 ScalarOrZero(FuncSum(goals, GoalRowsOf(project_id, exclude_goal_id)))
             total_hours == current_goal_hours + new_goal_hours
         IN  IF total_hours > projects[project_id].weekly_hours
             THEN TimeAllocationExceeded(
                      Some(project_id), None, Some(current_goal_hours),
                      Some(new_goal_hours),
                      Some(projects[project_id].weekly_hours - current_goal_hours))
             ELSE Passed

\* mutant: the new hours alone are compared with the goal's hours
validate_task_hours_for_goal_ignoring_siblings(goal_id, new_task_hours, exclude_task_id) ==
    IF goal_id \notin DOMAIN goals THEN ResourceNotFound
    ELSE IF new_task_hours > goals[goal_id].weekly_hours
         THEN TimeAllocationExceeded(
                  None, Some(goal_id), Some(0), Some(new_task_hours),
                  Some(goals[goal_id].weekly_hours))
         ELSE Passed

validate_task_hours_for_goal(goal_id, new_task_hours, exclude_task_id) ==
    IF goal_id \notin DOMAIN goals THEN ResourceNotFound
    ELSE LET current_task_hours ==
                 ScalarOrZero(FuncSum(tasks, TaskRowsOf(goal_id, exclude_task_id)))
             total_hours == current_task_hours + new_task_hours
         IN  IF total_hours > goals[goal_id].weekly_hours
             THEN TimeAllocationExceeded(
                      None, Some(goal_id), Some(current_task_hours),
                      Some(new_task_hours),
                      Some(goals[goal_id].weekly_hours - current_task_hours))
             ELSE Passed

\* mutant: `<=` for `<`
validate_project_hours_update_le(project_id, new_project_hours) ==
    LET total_goal_hours == ScalarOrZero(FuncSum(goals, GoalRowsOf(project_id, None)))
    IN  IF new_project_hours <= total_goal_hours
        THEN TimeAllocationExceeded(None, None, Some(total_goal_hours),
                                    Some(new_project_hours), None)
        ELSE Passed

validate_project_hours_update(project_id, new_project_hours) ==
    LET total_goal_hours == ScalarOrZero(FuncSum(goals, GoalRowsOf(project_id, None)))
    IN  IF new_project_hours < total_goal_hours
        THEN TimeAllocationExceeded(None, None, Some(total_goal_hours),
                                    Some(new_project_hours), None)
        ELSE Passed

\* mutant: the comparison is turned round
validate_goal_hours_update_reversed(goal_id, new_goal_hours) ==
    LET total_task_hours == ScalarOrZero(FuncSum(tasks, TaskRowsOf(goal_id, None)))
    IN  IF new_goal_hours > total_task_hours
        THEN TimeAllocationExceeded(None, None, Some(total_task_hours),
                                    Some(new_goal_hours), None)
        ELSE Passed

validate_goal_hours_update(goal_id, new_goal_hours) ==
    LET total_task_hours == ScalarOrZero(FuncSum(tasks, TaskRowsOf(goal_id, None)))
    IN  IF new_goal_hours < total_task_hours
        THEN TimeAllocationExceeded(None, None, Some(total_task_hours),
                                    Some(new_goal_hours), None)
        ELSE Passed

\* ------------------------------------------------------- request payloads
\* ProjectUpdate / GoalUpdate / TaskUpdate as the repositories receive them:
\* every field Optional with default None, a weekly_hours value within
\* Field(gt=0, le=168); fields_set is pydantic's model_fields_set (what
\* exclude_unset keeps).
UpdatePayloads ==
    {d \in [weekly_hours : {None} \cup {Some(h) : h \in HoursInputs},
            status : {None} \cup {Some(s) : s \in StatusInputs},
            fields_set : SUBSET {"weekly_hours", "status"}] :
        /\ ("weekly_hours" \notin d.fields_set => d.weekly_hours = None)
        /\ ("status" \notin d.fields_set => d.status = None)}

\* the payloads that leave status alone
HoursPayloads == {d \in UpdatePayloads : "status" \notin d.fields_set}

\* model_dump(exclude_unset=True) followed by setattr for each item
ApplyUpdate(row, d) ==
    [row EXCEPT
        !.weekly_hours = IF "weekly_hours" \in d.fields_set
                         THEN d.weekly_hours ELSE Some(@),
        !.status = IF "status" \in d.fields_set THEN d.status ELSE Some(@)]

\* commit of a row written by setattr: the columns are nullable=False
ViolatesNotNull(orow) == IsNone(orow.weekly_hours) \/ IsNone(orow.status)

Stored(orow) ==
    [orow EXCEPT !.weekly_hours = Val(@), !.status = Val(@)]

\* the call (method and path id) and its outcome: "ok" / "None" / "True" /
\* "False" for a return value, otherwise the exception raised, with its details
Response(op, user, id, outcome, details) ==
    [op |-> op, id |-> id, outcome |-> outcome, details |-> details]

Remove(table, ids) == [i \in DOMAIN table \ ids |-> table[i]]

Insert(table, id, row) == [i \in DOMAIN table \cup {id} |-> IF i = id THEN row ELSE table[i]]

\* ------------------------------------------------------ requests in flight
\* A request handler is a coroutine with a session of its own: between two of
\* its awaited statements the statements of another request may run.
Requests == 1..NumRequests

\* no request in the slot
Idle == [pc |-> "idle", op |-> "none", id |-> 0, hours |-> 0]

\* the users of the requests, registered: User.is_active defaults to True
Registered == [u \in Users |-> [is_active |-> TRUE]]

\* ------------------------------------------------------------------- Init
Init ==
    /\ projects = <<>>
    /\ goals = <<>>
    /\ tasks = <<>>
    /\ nextProjectId = 1
    /\ nextGoalId = 1
    /\ nextTaskId = 1
    /\ last = Response("init", 0, 0, "none", NoDetails)
    /\ requests = [r \in Requests |-> Idle]
    /\ chores = <<>>
    /\ habits = <<>>
    /\ users = Registered

\* ------------------------------------------------------ ProjectRepository
ProjectCreate(user_id, weekly_hours) ==
    /\ nextProjectId <= MaxProjects
    /\ projects' = Insert(projects, nextProjectId,
                          [user_id |-> user_id, weekly_hours |-> weekly_hours,
                           status |-> NOT_STARTED])
    /\ nextProjectId' = nextProjectId + 1
    /\ last' = Response("project_create", user_id, nextProjectId, "ok", NoDetails)
    /\ UNCHANGED <<elsewhere, goals, tasks, nextGoalId, nextTaskId>>

ProjectUpdate(user_id, project_id, project_data) ==
    IF ~(project_id \in DOMAIN projects /\ projects[project_id].user_id = user_id)
    THEN /\ last' = Response("project_update", user_id, project_id, "None", NoDetails)
         /\ UNCHANGED <<elsewhere, projects, goals, tasks, nextProjectId, nextGoalId, nextTaskId>>
    ELSE LET covers == IF ~IsNone(project_data.weekly_hours)
                       THEN validate_project_hours_update(project_id, Val(project_data.weekly_hours))
                       ELSE Passed
             project == ApplyUpdate(projects[project_id], project_data)
         IN  IF covers.error # "none"
             THEN /\ last' = Response("project_update", user_id, project_id, covers.error, covers.details)
                  /\ UNCHANGED <<elsewhere, projects, goals, tasks, nextProjectId, nextGoalId, nextTaskId>>
             ELSE IF ViolatesNotNull(project)
             THEN /\ last' = Response("project_update", user_id, project_id, "IntegrityError", NoDetails)
                  /\ UNCHANGED <<elsewhere, projects, goals, tasks, nextProjectId, nextGoalId, nextTaskId>>
             ELSE /\ projects' = [projects EXCEPT ![project_id] = Stored(project)]
                  /\ last' = Response("project_update", user_id, project_id, "ok", NoDetails)
                  /\ UNCHANGED <<elsewhere, goals, tasks, nextProjectId, nextGoalId, nextTaskId>>

\* mutant: the project is looked up by id alone, whoever owns it
ProjectDelete_NoOwnerFilter(user_id, project_id) ==
    IF ~(project_id \in DOMAIN projects)
    THEN /\ last' = Response("project_delete", user_id, project_id, "False", NoDetails)
         /\ UNCHANGED <<elsewhere, projects, goals, tasks, nextProjectId, nextGoalId, nextTaskId>>
    ELSE LET gone == {g \in DOMAIN goals : goals[g].project_id = project_id}
         IN  /\ projects' = Remove(projects, {project_id})
             /\ goals' = Remove(goals, gone)
             /\ tasks' = Remove(tasks, {t \in DOMAIN tasks : tasks[t].goal_id \in gone})
             /\ last' = Response("project_delete", user_id, project_id, "True", NoDetails)
             /\ UNCHANGED <<elsewhere, nextProjectId, nextGoalId, nextTaskId>>

\* session.delete(project): Project.goals and Goal.tasks are cascade_delete
ProjectDelete(user_id, project_id) ==
    IF ~(project_id \in DOMAIN projects /\ projects[project_id].user_id = user_id)
    THEN /\ last' = Response("project_delete", user_id, project_id, "False", NoDetails)
         /\ UNCHANGED <<elsewhere, projects, goals, tasks, nextProjectId, nextGoalId, nextTaskId>>
    ELSE LET gone == {g \in DOMAIN goals : goals[g].project_id = project_id}
         IN  /\ projects' = Remove(projects, {project_id})
             /\ goals' = Remove(goals, gone)
             /\ tasks' = Remove(tasks, {t \in DOMAIN tasks : tasks[t].goal_id \in gone})
             /\ last' = Response("project_delete", user_id, project_id, "True", NoDetails)
             /\ UNCHANGED <<elsewhere, nextProjectId, nextGoalId, nextTaskId>>

\* --------------------------------------------------------- GoalRepository
\* mutant: the row is added and committed before the validation runs
GoalCreate_WriteThenValidate(user_id, project_id, weekly_hours) ==
    IF ~(project_id \in DOMAIN projects /\ projects[project_id].user_id = user_id)
    THEN /\ last' = Response("goal_create", user_id, project_id, "ValueError", NoDetails)
         /\ UNCHANGED <<elsewhere, projects, goals, tasks, nextProjectId, nextGoalId, nextTaskId>>
    ELSE LET fits == validate_goal_hours_for_project(project_id, weekly_hours, None)
         IN  /\ nextGoalId <= MaxGoals
             /\ goals' = Insert(goals, nextGoalId,
                                [user_id |-> user_id, project_id |-> project_id,
                                 weekly_hours |-> weekly_hours, status |-> NOT_STARTED])
             /\ nextGoalId' = nextGoalId + 1
             /\ last' = IF fits.error # "none"
                        THEN Response("goal_create", user_id, project_id, fits.error, fits.details)
                        ELSE Response("goal_create", user_id, project_id, "ok", NoDetails)
             /\ UNCHANGED <<elsewhere, projects, tasks, nextProjectId, nextTaskId>>

\* mutant: the validation runs before the ownership check
GoalCreate_ValidateFirst(user_id, project_id, weekly_hours) ==
    LET fits == validate_goal_hours_for_project(project_id, weekly_hours, None)
    IN  IF fits.error # "none"
        THEN /\ last' = Response("goal_create", user_id, project_id, fits.error, fits.details)
             /\ UNCHANGED <<elsewhere, projects, goals, tasks, nextProjectId, nextGoalId, nextTaskId>>
        ELSE IF ~(project_id \in DOMAIN projects /\ projects[project_id].user_id = user_id)
        THEN /\ last' = Response("goal_create", user_id, project_id, "ValueError", NoDetails)
             /\ UNCHANGED <<elsewhere, projects, goals, tasks, nextProjectId, nextGoalId, nextTaskId>>
        ELSE /\ nextGoalId <= MaxGoals
             /\ goals' = Insert(goals, nextGoalId,
                                [user_id |-> user_id, project_id |-> project_id,
                                 weekly_hours |-> weekly_hours, status |-> NOT_STARTED])
             /\ nextGoalId' = nextGoalId + 1
             /\ last' = Response("goal_create", user_id, project_id, "ok", NoDetails)
             /\ UNCHANGED <<elsewhere, projects, tasks, nextProjectId, nextTaskId>>

\* mutant: the project is looked up by id alone, whoever owns it
GoalCreate_NoOwnerFilter(user_id, project_id, weekly_hours) ==
    IF ~(project_id \in DOMAIN projects)
    THEN /\ last' = Response("goal_create", user_id, project_id, "ValueError", NoDetails)
         /\ UNCHANGED <<elsewhere, projects, goals, tasks, nextProjectId, nextGoalId, nextTaskId>>
    ELSE LET fits == validate_goal_hours_for_project(project_id, weekly_hours, None)
         IN  IF fits.error # "none"
             THEN /\ last' = Response("goal_create", user_id, project_id, fits.error, fits.details)
                  /\ UNCHANGED <<elsewhere, projects, goals, tasks, nextProjectId, nextGoalId, nextTaskId>>
             ELSE /\ nextGoalId <= MaxGoals
                  /\ goals' = Insert(goals, nextGoalId,
                                     [user_id |-> user_id, project_id |-> project_id,
                                      weekly_hours |-> weekly_hours, status |-> NOT_STARTED])
                  /\ nextGoalId' = nextGoalId + 1
                  /\ last' = Response("goal_create", user_id, project_id, "ok", NoDetails)
                  /\ UNCHANGED <<elsewhere, projects, tasks, nextProjectId, nextTaskId>>

GoalCreate(user_id, project_id, weekly_hours) ==
    IF ~(project_id \in DOMAIN projects /\ projects[project_id].user_id = user_id)
    THEN /\ last' = Response("goal_create", user_id, project_id, "ValueError", NoDetails)
         /\ UNCHANGED <<elsewhere, projects, goals, tasks, nextProjectId, nextGoalId, nextTaskId>>
    ELSE LET fits == validate_goal_hours_for_project(project_id, weekly_hours, None)
         IN  IF fits.error # "none"
             THEN /\ last' = Response("goal_create", user_id, project_id, fits.error, fits.details)
                  /\ UNCHANGED <<elsewhere, projects, goals, tasks, nextProjectId, nextGoalId, nextTaskId>>
             ELSE /\ nextGoalId <= MaxGoals
                  /\ goals' = Insert(goals, nextGoalId,
                                     [user_id |-> user_id, project_id |-> project_id,
                                      weekly_hours |-> weekly_hours, status |-> NOT_STARTED])
                  /\ nextGoalId' = nextGoalId + 1
                  /\ last' = Response("goal_create", user_id, project_id, "ok", NoDetails)
                  /\ UNCHANGED <<elsewhere, projects, tasks, nextProjectId, nextTaskId>>

\* mutant: the goal is moved to the first project of its user
GoalUpdate_Reparenting(user_id, goal_id, goal_data) ==
    IF ~(goal_id \in DOMAIN goals /\ goals[goal_id].user_id = user_id)
    THEN /\ last' = Response("goal_update", user_id, goal_id, "None", NoDetails)
         /\ UNCHANGED <<elsewhere, projects, goals, tasks, nextProjectId, nextGoalId, nextTaskId>>
    ELSE LET fits == IF ~IsNone(goal_data.weekly_hours)
                     THEN validate_goal_hours_for_project(
                              goals[goal_id].project_id, Val(goal_data.weekly_hours),
                              Some(goal_id))
                     ELSE Passed
             covers == IF ~IsNone(goal_data.weekly_hours)
                       THEN validate_goal_hours_update(goal_id, Val(goal_data.weekly_hours))
                       ELSE Passed
             goal == ApplyUpdate(goals[goal_id], goal_data)
             first == CHOOSE p \in DOMAIN projects :
                          /\ projects[p].user_id = user_id
                          /\ \A q \in DOMAIN projects : projects[q].user_id = user_id => p <= q
         IN  IF fits.error # "none"
             THEN /\ last' = Response("goal_update", user_id, goal_id, fits.error, fits.details)
                  /\ UNCHANGED <<elsewhere, projects, goals, tasks, nextProjectId, nextGoalId, nextTaskId>>
             ELSE IF covers.error # "none"
             THEN /\ last' = Response("goal_update", user_id, goal_id, covers.error, covers.details)
                  /\ UNCHANGED <<elsewhere, projects, goals, tasks, nextProjectId, nextGoalId, nextTaskId>>
             ELSE IF ViolatesNotNull(goal)
             THEN /\ last' = Response("goal_update", user_id, goal_id, "IntegrityError", NoDetails)
                  /\ UNCHANGED <<elsewhere, projects, goals, tasks, nextProjectId, nextGoalId, nextTaskId>>
             ELSE /\ goals' = [goals EXCEPT ![goal_id] =
                                  [Stored(goal) EXCEPT !.project_id = first]]
                  /\ last' = Response("goal_update", user_id, goal_id, "ok", NoDetails)
                  /\ UNCHANGED <<elsewhere, projects, tasks, nextProjectId, nextGoalId, nextTaskId>>

\* mutant: the new hours are not compared with the goal's tasks
GoalUpdate_NoCoversCheck(user_id, goal_id, goal_data) ==
    IF ~(goal_id \in DOMAIN goals /\ goals[goal_id].user_id = user_id)
    THEN /\ last' = Response("goal_update", user_id, goal_id, "None", NoDetails)
         /\ UNCHANGED <<elsewhere, projects, goals, tasks, nextProjectId, nextGoalId, nextTaskId>>
    ELSE LET fits == IF ~IsNone(goal_data.weekly_hours)
                     THEN validate_goal_hours_for_project(
                              goals[goal_id].project_id, Val(goal_data.weekly_hours),
                              Some(goal_id))
                     ELSE Passed
             goal == ApplyUpdate(goals[goal_id], goal_data)
         IN  IF fits.error # "none"
             THEN /\ last' = Response("goal_update", user_id, goal_id, fits.error, fits.details)
                  /\ UNCHANGED <<elsewhere, projects, goals, tasks, nextProjectId, nextGoalId, nextTaskId>>
             ELSE IF ViolatesNotNull(goal)
             THEN /\ last' = Response("goal_update", user_id, goal_id, "IntegrityError", NoDetails)
                  /\ UNCHANGED <<elsewhere, projects, goals, tasks, nextProjectId, nextGoalId, nextTaskId>>
             ELSE /\ goals' = [goals EXCEPT ![goal_id] = Stored(goal)]
                  /\ last' = Response("goal_update", user_id, goal_id, "ok", NoDetails)
                  /\ UNCHANGED <<elsewhere, projects, tasks, nextProjectId, nextGoalId, nextTaskId>>

GoalUpdate(user_id, goal_id, goal_data) ==
    IF ~(goal_id \in DOMAIN goals /\ goals[goal_id].user_id = user_id)
    THEN /\ last' = Response("goal_update", user_id, goal_id, "None", NoDetails)
         /\ UNCHANGED <<elsewhere, projects, goals, tasks, nextProjectId, nextGoalId, nextTaskId>>
    ELSE LET fits == IF ~IsNone(goal_data.weekly_hours)
                     THEN validate_goal_hours_for_project(
                              goals[goal_id].project_id, Val(goal_data.weekly_hours),
                              Some(goal_id))
                     ELSE Passed
             covers == IF ~IsNone(goal_data.weekly_hours)
                       THEN validate_goal_hours_update(goal_id, Val(goal_data.weekly_hours))
                       ELSE Passed
             goal == ApplyUpdate(goals[goal_id], goal_data)
         IN  IF fits.error # "none"
             THEN /\ last' = Response("goal_update", user_id, goal_id, fits.error, fits.details)
                  /\ UNCHANGED <<elsewhere, projects, goals, tasks, nextProjectId, nextGoalId, nextTaskId>>
             ELSE IF covers.error # "none"
             THEN /\ last' = Response("goal_update", user_id, goal_id, covers.error, covers.details)
                  /\ UNCHANGED <<elsewhere, projects, goals, tasks, nextProjectId, nextGoalId, nextTaskId>>
             ELSE IF ViolatesNotNull(goal)
             THEN /\ last' = Response("goal_update", user_id, goal_id, "IntegrityError", NoDetails)
                  /\ UNCHANGED <<elsewhere, projects, goals, tasks, nextProjectId, nextGoalId, nextTaskId>>
             ELSE /\ goals' = [goals EXCEPT ![goal_id] = Stored(goal)]
                  /\ last' = Response("goal_update", user_id, goal_id, "ok", NoDetails)
                  /\ UNCHANGED <<elsewhere, projects, tasks, nextProjectId, nextGoalId, nextTaskId>>

\* mutant: a soft delete, the row stays and True is returned
GoalDelete_Soft(user_id, goal_id) ==
    IF ~(goal_id \in DOMAIN goals /\ goals[goal_id].user_id = user_id)
    THEN /\ last' = Response("goal_delete", user_id, goal_id, "False", NoDetails)
         /\ UNCHANGED <<elsewhere, projects, goals, tasks, nextProjectId, nextGoalId, nextTaskId>>
    ELSE /\ last' = Response("goal_delete", user_id, goal_id, "True", NoDetails)
         /\ UNCHANGED <<elsewhere, projects, goals, tasks, nextProjectId, nextGoalId, nextTaskId>>

\* mutant: Goal.tasks without cascade_delete, the goal's tasks stay behind
GoalDelete_NoCascade(user_id, goal_id) ==
    IF ~(goal_id \in DOMAIN goals /\ goals[goal_id].user_id = user_id)
    THEN /\ last' = Response("goal_delete", user_id, goal_id, "False", NoDetails)
         /\ UNCHANGED <<elsewhere, projects, goals, tasks, nextProjectId, nextGoalId, nextTaskId>>
    ELSE /\ goals' = Remove(goals, {goal_id})
         /\ last' = Response("goal_delete", user_id, goal_id, "True", NoDetails)
         /\ UNCHANGED <<elsewhere, projects, tasks, nextProjectId, nextGoalId, nextTaskId>>

\* session.delete(goal): Goal.tasks is cascade_delete
GoalDelete(user_id, goal_id) ==
    IF ~(goal_id \in DOMAIN goals /\ goals[goal_id].user_id = user_id)
    THEN /\ last' = Response("goal_delete", user_id, goal_id, "False", NoDetails)
         /\ UNCHANGED <<elsewhere, projects, goals, tasks, nextProjectId, nextGoalId, nextTaskId>>
    ELSE /\ goals' = Remove(goals, {goal_id})
         /\ tasks' = Remove(tasks, {t \in DOMAIN tasks : tasks[t].goal_id = goal_id})
         /\ last' = Response("goal_delete", user_id, goal_id, "True", NoDetails)
         /\ UNCHANGED <<elsewhere, projects, nextProjectId, nextGoalId, nextTaskId>>

\* --------------------------------------------------------- TaskRepository
TaskCreate(user_id, goal_id, weekly_hours) ==
    IF ~(goal_id \in DOMAIN goals /\ goals[goal_id].user_id = user_id)
    THEN /\ last' = Response("task_create", user_id, goal_id, "ValueError", NoDetails)
         /\ UNCHANGED <<elsewhere, projects, goals, tasks, nextProjectId, nextGoalId, nextTaskId>>
    ELSE LET fits == validate_task_hours_for_goal(goal_id, weekly_hours, None)
         IN  IF fits.error # "none"
             THEN /\ last' = Response("task_create", user_id, goal_id, fits.error, fits.details)
                  /\ UNCHANGED <<elsewhere, projects, goals, tasks, nextProjectId, nextGoalId, nextTaskId>>
             ELSE /\ nextTaskId <= MaxTasks
                  /\ tasks' = Insert(tasks, nextTaskId,
                                     [user_id |-> user_id, goal_id |-> goal_id,
                                      weekly_hours |-> weekly_hours, status |-> NOT_STARTED])
                  /\ nextTaskId' = nextTaskId + 1
                  /\ last' = Response("task_create", user_id, goal_id, "ok", NoDetails)
                  /\ UNCHANGED <<elsewhere, projects, goals, nextProjectId, nextGoalId>>

TaskUpdate(user_id, task_id, task_data) ==
    IF ~(task_id \in DOMAIN tasks /\ tasks[task_id].user_id = user_id)
    THEN /\ last' = Response("task_update", user_id, task_id, "None", NoDetails)
         /\ UNCHANGED <<elsewhere, projects, goals, tasks, nextProjectId, nextGoalId, nextTaskId>>
    ELSE LET fits == IF ~IsNone(task_data.weekly_hours)
                     THEN validate_task_hours_for_goal(
                              tasks[task_id].goal_id, Val(task_data.weekly_hours),
                              Some(task_id))
                     ELSE Passed
             task == ApplyUpdate(tasks[task_id], task_data)
         IN  IF fits.error # "none"
             THEN /\ last' = Response("task_update", user_id, task_id, fits.error, fits.details)
                  /\ UNCHANGED <<elsewhere, projects, goals, tasks, nextProjectId, nextGoalId, nextTaskId>>
             ELSE IF ViolatesNotNull(task)
             THEN /\ last' = Response("task_update", user_id, task_id, "IntegrityError", NoDetails)
                  /\ UNCHANGED <<elsewhere, projects, goals, tasks, nextProjectId, nextGoalId, nextTaskId>>
             ELSE /\ tasks' = [tasks EXCEPT ![task_id] = Stored(task)]
                  /\ last' = Response("task_update", user_id, task_id, "ok", NoDetails)
                  /\ UNCHANGED <<elsewhere, projects, goals, nextProjectId, nextGoalId, nextTaskId>>

TaskDelete(user_id, task_id) ==
    IF ~(task_id \in DOMAIN tasks /\ tasks[task_id].user_id = user_id)
    THEN /\ last' = Response("task_delete", user_id, task_id, "False", NoDetails)
         /\ UNCHANGED <<elsewhere, projects, goals, tasks, nextProjectId, nextGoalId, nextTaskId>>
    ELSE /\ tasks' = Remove(tasks, {task_id})
         /\ last' = Response("task_delete", user_id, task_id, "True", NoDetails)
         /\ UNCHANGED <<elsewhere, projects, goals, nextProjectId, nextGoalId, nextTaskId>>

\* ------------------------------------------------------------------- Next
Next ==
    \/ \E u \in Users, h \in HoursInputs : ProjectCreate(u, h)
    \/ \E u \in Users, p \in ProjectIds, d \in HoursPayloads : ProjectUpdate(u, p, d)
    \/ \E u \in Users, p \in ProjectIds : ProjectDelete(u, p)
    \/ \E u \in Users, p \in ProjectIds, h \in HoursInputs : GoalCreate(u, p, h)
    \/ \E u \in Users, g \in GoalIds, d \in HoursPayloads : GoalUpdate(u, g, d)
    \/ \E u \in Users, g \in GoalIds : GoalDelete(u, g)
    \/ \E u \in Users, g \in GoalIds, h \in HoursInputs : TaskCreate(u, g, h)
    \/ \E u \in Users, t \in TaskIds, d \in HoursPayloads : TaskUpdate(u, t, d)
    \/ \E u \in Users, t \in TaskIds : TaskDelete(u, t)

Spec == Init /\ [][Next]_vars

\* ------------------------------------------- GoalRepository, interleaved
\* GoalRepository.create and GoalRepository.update cut at their awaits: the
\* ownership SELECT, the validators' SELECTs, the commit.  Each statement
\* reads what is committed when it runs (no FOR UPDATE, default isolation).
hierarchyRest == <<projects, tasks, nextProjectId, nextTaskId, last, chores, habits, users>>

\* goal creates that have passed the ownership SELECT and not yet returned
PendingCreates == Cardinality({r \in Requests : requests[r].op = "goal_create"})

\* create: `select(Project).where(id, user_id)`; ValueError ends the request
GoalCreateLookup(r, user_id, project_id, weekly_hours) ==
    /\ requests[r].pc = "idle"
    /\ IF ~(project_id \in DOMAIN projects /\ projects[project_id].user_id = user_id)
       THEN UNCHANGED requests
       ELSE /\ nextGoalId + PendingCreates <= MaxGoals
            /\ requests' = [requests EXCEPT ![r] =
                               [pc |-> "checked", op |-> "goal_create",
                                id |-> project_id, hours |-> weekly_hours]]
    /\ UNCHANGED <<goals, nextGoalId, hierarchyRest>>

\* mutant: the project row is read FOR UPDATE, so the validation waits while
\* another request that validated against the same project has not committed
GoalCreateValidate_ForUpdate(r) ==
    /\ requests[r].pc = "checked" /\ requests[r].op = "goal_create"
    /\ ~\E o \in Requests \ {r} :
           requests[o].pc = "passed" /\ requests[o].op = "goal_create"
             /\ requests[o].id = requests[r].id
    /\ LET fits == validate_goal_hours_for_project(requests[r].id, requests[r].hours, None)
       IN  requests' = [requests EXCEPT ![r] =
                           IF fits.error # "none" THEN Idle ELSE [@ EXCEPT !.pc = "passed"]]
    /\ UNCHANGED <<goals, nextGoalId, hierarchyRest>>

\* create: validate_goal_hours_for_project; an exception ends the request
GoalCreateValidate(r) ==
    /\ requests[r].pc = "checked" /\ requests[r].op = "goal_create"
    /\ LET fits == validate_goal_hours_for_project(requests[r].id, requests[r].hours, None)
       IN  requests' = [requests EXCEPT ![r] =
                           IF fits.error # "none" THEN Idle ELSE [@ EXCEPT !.pc = "passed"]]
    /\ UNCHANGED <<goals, nextGoalId, hierarchyRest>>

\* create: session.add(goal); commit
GoalCreateCommit(r) ==
    /\ requests[r].pc = "passed" /\ requests[r].op = "goal_create"
    /\ goals' = Insert(goals, nextGoalId,
                       [user_id |-> projects[requests[r].id].user_id,
                        project_id |-> requests[r].id,
                        weekly_hours |-> requests[r].hours, status |-> NOT_STARTED])
    /\ nextGoalId' = nextGoalId + 1
    /\ requests' = [requests EXCEPT ![r] = Idle]
    /\ UNCHANGED hierarchyRest

\* update with weekly_hours in the payload: get_by_id(goal_id, user_id);
\* None ends the request
GoalUpdateLookup(r, user_id, goal_id, weekly_hours) ==
    /\ requests[r].pc = "idle"
    /\ IF ~(goal_id \in DOMAIN goals /\ goals[goal_id].user_id = user_id)
       THEN UNCHANGED requests
       ELSE requests' = [requests EXCEPT ![r] =
                            [pc |-> "checked", op |-> "goal_update",
                             id |-> goal_id, hours |-> weekly_hours]]
    /\ UNCHANGED <<goals, nextGoalId, hierarchyRest>>

\* update: validate_goal_hours_for_project (the goal itself excluded), then
\* validate_goal_hours_update; an exception ends the request
GoalUpdateValidate(r) ==
    /\ requests[r].pc = "checked" /\ requests[r].op = "goal_update"
    /\ LET fits == validate_goal_hours_for_project(
                       goals[requests[r].id].project_id, requests[r].hours,
                       Some(requests[r].id))
           covers == validate_goal_hours_update(requests[r].id, requests[r].hours)
       IN  requests' = [requests EXCEPT ![r] =
                           IF fits.error # "none" \/ covers.error # "none"
                           THEN Idle ELSE [@ EXCEPT !.pc = "passed"]]
    /\ UNCHANGED <<goals, nextGoalId, hierarchyRest>>

\* update: setattr(goal, "weekly_hours", ...); commit
GoalUpdateCommit(r) ==
    /\ requests[r].pc = "passed" /\ requests[r].op = "goal_update"
    /\ goals' = [goals EXCEPT ![requests[r].id].weekly_hours = requests[r].hours]
    /\ requests' = [requests EXCEPT ![r] = Idle]
    /\ UNCHANGED <<nextGoalId, hierarchyRest>>

RaceNext ==
    \/ \E u \in Users, h \in HoursInputs : ProjectCreate(u, h)
    \/ \E r \in Requests, u \in Users, p \in ProjectIds, h \in HoursInputs :
          GoalCreateLookup(r, u, p, h)
    \/ \E r \in Requests : GoalCreateValidate(r)
    \/ \E r \in Requests : GoalCreateCommit(r)
    \/ \E r \in Requests, u \in Users, g \in GoalIds, h \in HoursInputs :
          GoalUpdateLookup(r, u, g, h)
    \/ \E r \in Requests : GoalUpdateValidate(r)
    \/ \E r \in Requests : GoalUpdateCommit(r)

SpecRace == Init /\ [][RaceNext]_vars

\* -------------------------------------------------------------- API layer
\* What a request is answered with, as a function of how its repository call
\* ended (`result`: outcome and details, as in `last`).
HTTP_201_CREATED == 201
HTTP_204_NO_CONTENT == 204
HTTP_400_BAD_REQUEST == 400
HTTP_404_NOT_FOUND == 404
HTTP_422_UNPROCESSABLE_ENTITY == 422
HTTP_500_INTERNAL_SERVER_ERROR == 500

\* the endpoint returns: its declared status_code (FastAPI's default is 200)
Returned(status_code) ==
    [status |-> status_code, code |-> "", details |-> NoDetails, body |-> "model"]

\* raise HTTPException(status_code, detail=<string>): {"detail": <string>}
HTTPException(status_code) ==
    [status |-> status_code, code |-> "", details |-> NoDetails, body |-> "detail"]

\* {"error": {"code": ..., "message": ..., "details": ...}}
create_error_response(status_code, error_code, details) ==
    [status |-> status_code, code |-> error_code, details |-> details, body |-> "error"]

time_allocation_exceeded_handler(exc) ==
    create_error_response(HTTP_422_UNPROCESSABLE_ENTITY, "TIME_ALLOCATION_EXCEEDED", exc.details)

\* details: resource_type and resource_id, none of the allocation fields
resource_not_found_handler(exc) ==
    create_error_response(HTTP_404_NOT_FOUND, "RESOURCE_NOT_FOUND", NoDetails)

\* the IntegrityError branch
database_error_handler(exc) ==
    create_error_response(HTTP_400_BAD_REQUEST, "INTEGRITY_ERROR", NoDetails)

general_exception_handler(exc) ==
    create_error_response(HTTP_500_INTERNAL_SERVER_ERROR, "INTERNAL_SERVER_ERROR", NoDetails)

\* app.add_exception_handler(...): the handler registered for the class of
\* an exception that leaves the endpoint
exception_handlers(exc) ==
    CASE exc.outcome = "TimeAllocationExceeded" -> time_allocation_exceeded_handler(exc)
      [] exc.outcome = "ResourceNotFound" -> resource_not_found_handler(exc)
      [] exc.outcome = "IntegrityError" -> database_error_handler(exc)
      [] OTHER -> general_exception_handler(exc)

\* projects.py: no try/except, what the repository raises leaves the endpoint
create_project(result) == Returned(HTTP_201_CREATED)

\* mutant: the endpoint wraps the call as goals.py and tasks.py do
update_project_caught(result) ==
    IF result.outcome = "ok" THEN Returned(200)
    ELSE HTTPException(HTTP_400_BAD_REQUEST)

update_project(result) ==
    IF result.outcome = "ok" THEN Returned(200)
    ELSE IF result.outcome = "None"
         THEN exception_handlers([outcome |-> "ResourceNotFound", details |-> NoDetails])
         ELSE exception_handlers(result)

delete_project(result) ==
    IF result.outcome = "True" THEN Returned(HTTP_204_NO_CONTENT)
    ELSE HTTPException(HTTP_404_NOT_FOUND)

\* goals.py: except ValueError -> 404; except TimeAllocationError -> 400;
\* except Exception -> 400, each with detail=str(e)
create_goal(result) ==
    IF result.outcome = "ok" THEN Returned(HTTP_201_CREATED)
    ELSE IF result.outcome = "ValueError" THEN HTTPException(HTTP_404_NOT_FOUND)
    ELSE HTTPException(HTTP_400_BAD_REQUEST)

\* the HTTPException(404) for a None result is raised inside the try block
\* and caught by `except Exception`
update_goal(result) ==
    IF result.outcome = "ok" THEN Returned(200)
    ELSE HTTPException(HTTP_400_BAD_REQUEST)

delete_goal(result) ==
    IF result.outcome = "True" THEN Returned(HTTP_204_NO_CONTENT)
    ELSE HTTPException(HTTP_404_NOT_FOUND)

\* tasks.py: as goals.py
create_task(result) ==
    IF result.outcome = "ok" THEN Returned(HTTP_201_CREATED)
    ELSE IF result.outcome = "ValueError" THEN HTTPException(HTTP_404_NOT_FOUND)
    ELSE HTTPException(HTTP_400_BAD_REQUEST)

update_task(result) ==
    IF result.outcome = "ok" THEN Returned(200)
    ELSE HTTPException(HTTP_400_BAD_REQUEST)

delete_task(result) ==
    IF result.outcome = "True" THEN Returned(HTTP_204_NO_CONTENT)
    ELSE HTTPException(HTTP_404_NOT_FOUND)

\* the answer to the request whose repository call `result` records
HttpResponse(result) ==
    CASE result.op = "project_create" -> create_project(result)
      [] result.op = "project_update" -> update_project(result)
      [] result.op = "project_delete" -> delete_project(result)
      [] result.op = "goal_create" -> create_goal(result)
      [] result.op = "goal_update" -> update_goal(result)
      [] result.op = "goal_delete" -> delete_goal(result)
      [] result.op = "task_create" -> create_task(result)
      [] result.op = "task_update" -> update_task(result)
      [] result.op = "task_delete" -> delete_task(result)
      [] OTHER -> Returned(200)

\* ------------------------------------------------------- chores and habits
IN_PROGRESS == "In Progress"
TaskStatus == {NOT_STARTED, IN_PROGRESS, COMPLETED}

DAILY == "daily"
WEEKLY == "weekly"
BIWEEKLY == "biweekly"
MONTHLY == "monthly"
CUSTOM == "custom"
FrequencyType == {DAILY, WEEKLY, BIWEEKLY, MONTHLY, CUSTOM}

\* timedelta(weeks=1) in days; the days MONTHLY is approximated with
DaysPerWeek == 7
MonthlyDays == 30

ChoreIds == 1..MaxChores
HabitIds == 1..MaxHabits
Days == 0..MaxDay

\* validate_frequency_value: 1 unless the type is CUSTOM (Field(gt=0) besides)
validate_frequency_value(frequency_type, v) ==
    v > 0 /\ (frequency_type # CUSTOM => v = 1)

\* ChoreCreate / HabitCreate as the repositories receive them
RecurringCreates ==
    {d \in [status : TaskStatus, frequency_type : FrequencyType,
            frequency_value : 1..MaxFrequencyValue, next_due_date : 0..MaxDue] :
        validate_frequency_value(d.frequency_type, d.frequency_value)}

\* mutant: a CUSTOM interval counts the completion day as its first day
calculate_next_due_date_inclusive(self, completion_date, today) ==
    LET base_date == IF ~IsNone(completion_date) THEN Val(completion_date)
                     ELSE IF ~IsNone(self.last_completed_date)
                          THEN Val(self.last_completed_date)
                          ELSE today
    IN  CASE self.frequency_type = DAILY -> base_date + 1
          [] self.frequency_type = WEEKLY -> base_date + DaysPerWeek
          [] self.frequency_type = BIWEEKLY -> base_date + 2 * DaysPerWeek
          [] self.frequency_type = MONTHLY -> base_date + MonthlyDays
          [] self.frequency_type = CUSTOM -> base_date + self.frequency_value - 1

\* mutant: the next due date advances from the previous due date
calculate_next_due_date_from_due(self, completion_date, today) ==
    LET base_date == self.next_due_date
    IN  CASE self.frequency_type = DAILY -> base_date + 1
          [] self.frequency_type = WEEKLY -> base_date + DaysPerWeek
          [] self.frequency_type = BIWEEKLY -> base_date + 2 * DaysPerWeek
          [] self.frequency_type = MONTHLY -> base_date + MonthlyDays
          [] self.frequency_type = CUSTOM -> base_date + self.frequency_value

\* RecurringItemBase.calculate_next_due_date; `today` is date.today()
calculate_next_due_date(self, completion_date, today) ==
    LET base_date == IF ~IsNone(completion_date) THEN Val(completion_date)
                     ELSE IF ~IsNone(self.last_completed_date)
                          THEN Val(self.last_completed_date)
                          ELSE today
    IN  CASE self.frequency_type = DAILY -> base_date + 1
          [] self.frequency_type = WEEKLY -> base_date + DaysPerWeek
          [] self.frequency_type = BIWEEKLY -> base_date + 2 * DaysPerWeek
          [] self.frequency_type = MONTHLY -> base_date + MonthlyDays
          [] self.frequency_type = CUSTOM -> base_date + self.frequency_value

\* mutant: a non-daily habit completed before its due date starts over
update_streak_early_resets(self, completion_date, today) ==
    IF IsNone(self.last_completed_date) THEN 1
    ELSE IF self.frequency_type = DAILY
         THEN IF completion_date - Val(self.last_completed_date) <= 1
              THEN self.streak_count + 1 ELSE 1
         ELSE IF completion_date =
                   calculate_next_due_date(self, self.last_completed_date, today)
              THEN self.streak_count + 1 ELSE 1

\* Habit.update_streak: the streak_count it sets (and returns)
update_streak(self, completion_date, today) ==
    IF IsNone(self.last_completed_date) THEN 1
    ELSE IF self.frequency_type = DAILY
         THEN IF completion_date - Val(self.last_completed_date) <= 1
              THEN self.streak_count + 1 ELSE 1
         ELSE IF completion_date <=
                   calculate_next_due_date(self, self.last_completed_date, today)
              THEN self.streak_count + 1 ELSE 1

\* a completion call on item `id`: the date it used and the row it found
Completion(op, id, date, before) ==
    [op |-> op, id |-> id, outcome |-> "ok", details |-> NoDetails,
     date |-> date, before |-> before]

hierarchy == <<projects, goals, tasks, nextProjectId, nextGoalId, nextTaskId, requests,
               users>>

\* chores and habits stored
RecurringItems == Cardinality(DOMAIN chores) + Cardinality(DOMAIN habits)

\* ChoreRepository.create (ids are serial; no chore is deleted here)
ChoreCreate(chore_data) ==
    LET id == Cardinality(DOMAIN chores) + 1
    IN  /\ id <= MaxChores
        /\ RecurringItems < MaxRecurringItems
        /\ chores' = Insert(chores, id,
                            [status |-> chore_data.status,
                             frequency_type |-> chore_data.frequency_type,
                             frequency_value |-> chore_data.frequency_value,
                             next_due_date |-> chore_data.next_due_date,
                             last_completed_date |-> None])
        /\ last' = Response("chore_create", 0, id, "ok", NoDetails)
        /\ UNCHANGED <<habits, hierarchy>>

\* mutant: the status is left as it was
complete_chore_keeping_status(chore_id, completion_date, today) ==
    LET chore == chores[chore_id]
        date == IF IsNone(completion_date) THEN today ELSE Val(completion_date)
    IN  /\ chore_id \in DOMAIN chores
        /\ chores' = [chores EXCEPT ![chore_id] =
                         [chore EXCEPT
                             !.last_completed_date = Some(date),
                             !.next_due_date =
                                 calculate_next_due_date(
                                     [chore EXCEPT !.last_completed_date = Some(date)],
                                     Some(date), today)]]
        /\ last' = Completion("complete_chore", chore_id, date, chore)
        /\ UNCHANGED <<habits, hierarchy>>

\* ChoreRepository.complete_chore, on a chore that get_by_id has loaded
complete_chore(chore_id, completion_date, today) ==
    LET chore == chores[chore_id]
        date == IF IsNone(completion_date) THEN today ELSE Val(completion_date)
    IN  /\ chore_id \in DOMAIN chores
        /\ chores' = [chores EXCEPT ![chore_id] =
                         [chore EXCEPT
                             !.last_completed_date = Some(date),
                             !.next_due_date =
                                 calculate_next_due_date(
                                     [chore EXCEPT !.last_completed_date = Some(date)],
                                     Some(date), today),
                             !.status = NOT_STARTED]]
        /\ last' = Completion("complete_chore", chore_id, date, chore)
        /\ UNCHANGED <<habits, hierarchy>>

\* HabitRepository.create: streak_count takes its default
HabitCreate(habit_data) ==
    LET id == Cardinality(DOMAIN habits) + 1
    IN  /\ id <= MaxHabits
        /\ RecurringItems < MaxRecurringItems
        /\ habits' = Insert(habits, id,
                            [status |-> habit_data.status,
                             frequency_type |-> habit_data.frequency_type,
                             frequency_value |-> habit_data.frequency_value,
                             next_due_date |-> habit_data.next_due_date,
                             last_completed_date |-> None,
                             streak_count |-> 0])
        /\ last' = Response("habit_create", 0, id, "ok", NoDetails)
        /\ UNCHANGED <<chores, hierarchy>>

\* mutant: last_completed_date is overwritten before the streak is updated
complete_habit_date_first(habit_id, completion_date, today) ==
    LET habit == habits[habit_id]
        date == IF IsNone(completion_date) THEN today ELSE Val(completion_date)
        dated == [habit EXCEPT !.last_completed_date = Some(date)]
        streaked == [dated EXCEPT !.streak_count = update_streak(dated, date, today)]
    IN  /\ habit_id \in DOMAIN habits
        /\ streaked.streak_count <= MaxStreak
        /\ habits' = [habits EXCEPT ![habit_id] =
                         [streaked EXCEPT
                             !.next_due_date =
                                 calculate_next_due_date(streaked, Some(date), today),
                             !.status = NOT_STARTED]]
        /\ last' = Completion("complete_habit", habit_id, date, habit)
        /\ UNCHANGED <<chores, hierarchy>>

\* HabitRepository.complete_habit, on a habit that get_by_id has loaded
complete_habit(habit_id, completion_date, today) ==
    LET habit == habits[habit_id]
        date == IF IsNone(completion_date) THEN today ELSE Val(completion_date)
        streaked == [habit EXCEPT !.streak_count = update_streak(habit, date, today)]
        dated == [streaked EXCEPT !.last_completed_date = Some(date)]
    IN  /\ habit_id \in DOMAIN habits
        /\ streaked.streak_count <= MaxStreak
        /\ habits' = [habits EXCEPT ![habit_id] =
                         [dated EXCEPT
                             !.next_due_date =
                                 calculate_next_due_date(dated, Some(date), today),
                             !.status = NOT_STARTED]]
        /\ last' = Completion("complete_habit", habit_id, date, habit)
        /\ UNCHANGED <<chores, hierarchy>>

\* ChoreRepository.get_due_chores / HabitRepository.get_due_habits of the
\* user whose items these are: the rows with next_due_date <= due_date
get_due_chores(due_date, today) ==
    LET date == IF IsNone(due_date) THEN today ELSE Val(due_date)
    IN  {c \in DOMAIN chores : chores[c].next_due_date <= date}

get_due_habits(due_date, today) ==
    LET date == IF IsNone(due_date) THEN today ELSE Val(due_date)
    IN  {h \in DOMAIN habits : habits[h].next_due_date <= date}

\* a completion names its date, or names none and date.today() is used
RecurringNext ==
    \/ \E d \in RecurringCreates : ChoreCreate(d)
    \/ \E c \in ChoreIds, t \in Days : complete_chore(c, Some(t), t)
    \/ \E c \in ChoreIds, t \in Days : complete_chore(c, None, t)
    \/ \E d \in RecurringCreates : HabitCreate(d)
    \/ \E h \in HabitIds, t \in Days : complete_habit(h, Some(t), t)
    \/ \E h \in HabitIds, t \in Days : complete_habit(h, None, t)

SpecRecurring == Init /\ [][RecurringNext]_vars

\* ------------------------------------------------------ allocation summaries
\* The summaries read rows; they are applied here to the rows the tables can
\* hold.  weekly_hours is a FLOAT NOT NULL column with no CHECK constraint:
\* Field(gt=0, le=168) bounds the request payloads, not the stored rows.
MaxStored == 2
ColumnHours == 0..MaxHours

\* float division and multiplication, kept exact as numerator and denominator
Quotient(a, b) == [num |-> a, den |-> b]
Scaled(q, k) == [num |-> q.num * k, den |-> q.den]
Whole(n) == [num |-> n, den |-> 1]

\* `result.scalar() or 0` of select(func.count(...))
CountRows(ids) == IF Cardinality(ids) = 0 THEN 0 ELSE Cardinality(ids)

\* mutant: the division runs without the `if project.weekly_hours > 0` guard
get_project_allocation_summary_unguarded(project_id) ==
    IF project_id \notin DOMAIN projects THEN [error |-> "ResourceNotFound"]
    ELSE LET project == projects[project_id]
             total_goal_hours == ScalarOrZero(FuncSum(goals, GoalRowsOf(project_id, None)))
             goal_count == CountRows(GoalRowsOf(project_id, None))
         IN  IF project.weekly_hours = 0 THEN [error |-> "ZeroDivisionError"]
             ELSE [error |-> "none",
                   summary |->
                      [total_hours |-> project.weekly_hours,
                       allocated_hours |-> total_goal_hours,
                       available_hours |-> project.weekly_hours - total_goal_hours,
                       count |-> goal_count,
                       utilization_percentage |->
                           Scaled(Quotient(total_goal_hours, project.weekly_hours), 100)]]

\* TimeAllocationService.get_project_allocation_summary
get_project_allocation_summary(project_id) ==
    IF project_id \notin DOMAIN projects THEN [error |-> "ResourceNotFound"]
    ELSE LET project == projects[project_id]
             total_goal_hours == ScalarOrZero(FuncSum(goals, GoalRowsOf(project_id, None)))
             goal_count == CountRows(GoalRowsOf(project_id, None))
         IN  [error |-> "none",
              summary |->
                 [total_hours |-> project.weekly_hours,
                  allocated_hours |-> total_goal_hours,
                  available_hours |-> project.weekly_hours - total_goal_hours,
                  count |-> goal_count,
                  utilization_percentage |->
                      IF project.weekly_hours > 0
                      THEN Scaled(Quotient(total_goal_hours, project.weekly_hours), 100)
                      ELSE Whole(0)]]

\* TimeAllocationService.get_goal_allocation_summary
get_goal_allocation_summary(goal_id) ==
    IF goal_id \notin DOMAIN goals THEN [error |-> "ResourceNotFound"]
    ELSE LET goal == goals[goal_id]
             total_task_hours == ScalarOrZero(FuncSum(tasks, TaskRowsOf(goal_id, None)))
             task_count == CountRows(TaskRowsOf(goal_id, None))
         IN  [error |-> "none",
              summary |->
                 [total_hours |-> goal.weekly_hours,
                  allocated_hours |-> total_task_hours,
                  available_hours |-> goal.weekly_hours - total_task_hours,
                  count |-> task_count,
                  utilization_percentage |->
                      IF goal.weekly_hours > 0
                      THEN Scaled(Quotient(total_task_hours, goal.weekly_hours), 100)
                      ELSE Whole(0)]]

\* the dict returned, or the exception raised, by a summary call
Summarised(op, id, result) ==
    IF result.error = "none"
    THEN [op |-> op, id |-> id, outcome |-> "ok", details |-> NoDetails,
          summary |-> result.summary]
    ELSE Response(op, 0, id, result.error, NoDetails)

\* ProjectRepository.get_allocation_summary
ProjectGetAllocationSummary(user_id, project_id) ==
    /\ IF ~(project_id \in DOMAIN projects /\ projects[project_id].user_id = user_id)
       THEN last' = Response("project_allocation", user_id, project_id, "None", NoDetails)
       ELSE last' = Summarised("project_allocation", project_id,
                               get_project_allocation_summary(project_id))
    /\ UNCHANGED <<elsewhere, projects, goals, tasks, nextProjectId, nextGoalId, nextTaskId>>

\* GoalRepository.get_allocation_summary
GoalGetAllocationSummary(user_id, goal_id) ==
    /\ IF ~(goal_id \in DOMAIN goals /\ goals[goal_id].user_id = user_id)
       THEN last' = Response("goal_allocation", user_id, goal_id, "None", NoDetails)
       ELSE last' = Summarised("goal_allocation", goal_id,
                               get_goal_allocation_summary(goal_id))
    /\ UNCHANGED <<elsewhere, projects, goals, tasks, nextProjectId, nextGoalId, nextTaskId>>

\* one project, up to MaxStored goals under it and up to MaxStored tasks under
\* its first goal, all of one owner, with any hours the columns hold
StoredRows ==
    UNION {[1..n -> [weekly_hours : ColumnHours]] : n \in 0..MaxStored}

StoredInit ==
    \E owner \in Users, h \in ColumnHours :
        /\ projects = <<[user_id |-> owner, weekly_hours |-> h, status |-> NOT_STARTED]>>
        /\ goals \in {[g \in DOMAIN G |->
                          [user_id |-> owner, project_id |-> 1,
                           weekly_hours |-> G[g].weekly_hours, status |-> NOT_STARTED]] :
                      G \in StoredRows}
        /\ tasks \in {[t \in DOMAIN T |->
                          [user_id |-> owner, goal_id |-> 1,
                           weekly_hours |-> T[t].weekly_hours, status |-> NOT_STARTED]] :
                      T \in StoredRows}
        /\ (goals = <<>> => tasks = <<>>)
        /\ nextProjectId = 2
        /\ nextGoalId = Len(goals) + 1
        /\ nextTaskId = Len(tasks) + 1
        /\ last = Response("init", 0, 0, "none", NoDetails)
        /\ requests = [r \in Requests |-> Idle]
        /\ chores = <<>>
        /\ habits = <<>>
        /\ users = Registered

SummaryNext ==
    \/ \E u \in Users, p \in ProjectIds : ProjectGetAllocationSummary(u, p)
    \/ \E u \in Users, g \in GoalIds : GoalGetAllocationSummary(u, g)

SpecSummary == StoredInit /\ [][SummaryNext]_vars

\* ------------------------------------------------- the validators, called
\* A validator call on its own: its SELECTs run in the caller's session, it
\* returns None or raises, and it executes no other statement.
Validated(op, id, result) ==
    Response(op, 0, id, IF result.error = "none" THEN "ok" ELSE result.error,
             result.details)

ExcludeInputs == {None} \cup {Some(i) : i \in 1..MaxStored}

CallValidateGoalHoursForProject(project_id, new_goal_hours, exclude_goal_id) ==
    /\ last' = Validated("validate_goal_hours_for_project", project_id,
                         validate_goal_hours_for_project(project_id, new_goal_hours,
                                                         exclude_goal_id))
    /\ UNCHANGED <<elsewhere, projects, goals, tasks, nextProjectId, nextGoalId, nextTaskId>>

CallValidateTaskHoursForGoal(goal_id, new_task_hours, exclude_task_id) ==
    /\ last' = Validated("validate_task_hours_for_goal", goal_id,
                         validate_task_hours_for_goal(goal_id, new_task_hours,
                                                      exclude_task_id))
    /\ UNCHANGED <<elsewhere, projects, goals, tasks, nextProjectId, nextGoalId, nextTaskId>>

\* mutant: a project too small for its goals is raised to their sum
CallValidateProjectHoursUpdate_Raising(project_id, new_project_hours) ==
    LET result == validate_project_hours_update(project_id, new_project_hours)
    IN  /\ last' = Validated("validate_project_hours_update", project_id, result)
        /\ projects' = IF result.error # "none" /\ project_id \in DOMAIN projects
                       THEN [projects EXCEPT ![project_id].weekly_hours =
                                Val(result.details.current_allocation)]
                       ELSE projects
        /\ UNCHANGED <<elsewhere, goals, tasks, nextProjectId, nextGoalId, nextTaskId>>

CallValidateProjectHoursUpdate(project_id, new_project_hours) ==
    /\ last' = Validated("validate_project_hours_update", project_id,
                         validate_project_hours_update(project_id, new_project_hours))
    /\ UNCHANGED <<elsewhere, projects, goals, tasks, nextProjectId, nextGoalId, nextTaskId>>

CallValidateGoalHoursUpdate(goal_id, new_goal_hours) ==
    /\ last' = Validated("validate_goal_hours_update", goal_id,
                         validate_goal_hours_update(goal_id, new_goal_hours))
    /\ UNCHANGED <<elsewhere, projects, goals, tasks, nextProjectId, nextGoalId, nextTaskId>>

\* the parent ids include one that no row has
ValidatorsNext ==
    \/ \E p \in 1..nextProjectId, h \in HoursInputs, x \in ExcludeInputs :
           CallValidateGoalHoursForProject(p, h, x)
    \/ \E g \in 1..nextGoalId, h \in HoursInputs, x \in ExcludeInputs :
           CallValidateTaskHoursForGoal(g, h, x)
    \/ \E p \in 1..nextProjectId, h \in HoursInputs :
           CallValidateProjectHoursUpdate(p, h)
    \/ \E g \in 1..nextGoalId, h \in HoursInputs :
           CallValidateGoalHoursUpdate(g, h)

SpecValidators == StoredInit /\ [][ValidatorsNext]_vars

\* ------------------------------------------------------- updates of fields
\* The update calls with every payload, status included, on tables as the
\* create calls leave them: hours within Field(gt=0, le=168) and each
\* parent's children within its hours.
CreatedInit ==
    /\ StoredInit
    /\ \A p \in DOMAIN projects :
          /\ ValidHours(projects[p].weekly_hours)
          /\ SumRows(goals, GoalRowsOf(p, None)) <= projects[p].weekly_hours
    /\ \A g \in DOMAIN goals :
          /\ ValidHours(goals[g].weekly_hours)
          /\ SumRows(tasks, TaskRowsOf(g, None)) <= goals[g].weekly_hours
    /\ \A t \in DOMAIN tasks : ValidHours(tasks[t].weekly_hours)

UpdatesNext ==
    \/ \E u \in Users, p \in ProjectIds, d \in UpdatePayloads : ProjectUpdate(u, p, d)
    \/ \E u \in Users, g \in GoalIds, d \in UpdatePayloads : GoalUpdate(u, g, d)
    \/ \E u \in Users, t \in TaskIds, d \in UpdatePayloads : TaskUpdate(u, t, d)

SpecUpdates == CreatedInit /\ [][UpdatesNext]_vars

\* ------------------------------------------------ chore and habit updates
\* ChoreUpdate / HabitUpdate as the repositories receive them: every field
\* Optional with default None, frequency_value within Field(gt=0), and no
\* validator over frequency_type and frequency_value together.
RecurringUpdates ==
    {d \in [frequency_type : {None} \cup {Some(f) : f \in FrequencyType},
            frequency_value : {None} \cup {Some(v) : v \in 1..MaxFrequencyValue},
            fields_set : SUBSET {"frequency_type", "frequency_value"}] :
        /\ ("frequency_type" \notin d.fields_set => d.frequency_type = None)
        /\ ("frequency_value" \notin d.fields_set => d.frequency_value = None)}

\* model_dump(exclude_unset=True) followed by setattr for each item
ApplyRecurringUpdate(row, d) ==
    [row EXCEPT
        !.frequency_type = IF "frequency_type" \in d.fields_set
                           THEN d.frequency_type ELSE Some(@),
        !.frequency_value = IF "frequency_value" \in d.fields_set
                            THEN d.frequency_value ELSE Some(@)]

\* update_chore: get_by_id, 404 without the chore, ChoreRepository.update
ChoreUpdate(chore_id, chore_data) ==
    IF chore_id \notin DOMAIN chores
    THEN /\ last' = Response("chore_update", 0, chore_id, "None", NoDetails)
         /\ UNCHANGED <<chores, habits, hierarchy>>
    ELSE LET chore == ApplyRecurringUpdate(chores[chore_id], chore_data)
         IN  IF IsNone(chore.frequency_type) \/ IsNone(chore.frequency_value)
             THEN /\ last' = Response("chore_update", 0, chore_id, "IntegrityError", NoDetails)
                  /\ UNCHANGED <<chores, habits, hierarchy>>
             ELSE /\ chores' = [chores EXCEPT ![chore_id] =
                                   [chore EXCEPT !.frequency_type = Val(@),
                                                 !.frequency_value = Val(@)]]
                  /\ last' = Response("chore_update", 0, chore_id, "ok", NoDetails)
                  /\ UNCHANGED <<habits, hierarchy>>

\* update_habit: get_by_id, 404 without the habit, HabitRepository.update
HabitUpdate(habit_id, habit_data) ==
    IF habit_id \notin DOMAIN habits
    THEN /\ last' = Response("habit_update", 0, habit_id, "None", NoDetails)
         /\ UNCHANGED <<chores, habits, hierarchy>>
    ELSE LET habit == ApplyRecurringUpdate(habits[habit_id], habit_data)
         IN  IF IsNone(habit.frequency_type) \/ IsNone(habit.frequency_value)
             THEN /\ last' = Response("habit_update", 0, habit_id, "IntegrityError", NoDetails)
                  /\ UNCHANGED <<chores, habits, hierarchy>>
             ELSE /\ habits' = [habits EXCEPT ![habit_id] =
                                   [habit EXCEPT !.frequency_type = Val(@),
                                                 !.frequency_value = Val(@)]]
                  /\ last' = Response("habit_update", 0, habit_id, "ok", NoDetails)
                  /\ UNCHANGED <<chores, hierarchy>>

RecurringUpdatesNext ==
    \/ \E d \in RecurringCreates : ChoreCreate(d)
    \/ \E c \in ChoreIds, t \in Days : complete_chore(c, None, t)
    \/ \E d \in RecurringCreates : HabitCreate(d)
    \/ \E h \in HabitIds, t \in Days : complete_habit(h, None, t)
    \/ \E c \in ChoreIds, d \in RecurringUpdates : ChoreUpdate(c, d)
    \/ \E h \in HabitIds, d \in RecurringUpdates : HabitUpdate(h, d)

SpecRecurringUpdates == Init /\ [][RecurringUpdatesNext]_vars

\* ----------------------------------------------------------- authentication
HTTP_401_UNAUTHORIZED == 401

\* A bearer token as verify_token sees it: whether jwt.decode accepts it
\* (signature, expiry, claims) and its "sub" claim, a string or absent.  A
\* string is a sequence of characters.
MaxSubjectLen == 2
Digits == <<"0", "1", "2">>
Characters == {"0", "1", "2", "a"}
Subjects == UNION {[1..n -> Characters] : n \in 0..MaxSubjectLen}
Tokens == [decodes : BOOLEAN, sub : {None} \cup {Some(s) : s \in Subjects}]
Credentials == {None} \cup {Some(t) : t \in Tokens}

\* the user table: any set of the ids, active or not
UserTables ==
    UNION {[S -> [is_active : BOOLEAN]] : S \in SUBSET Users}

\* security.verify_token: the subject, or None on JWTError or without "sub"
verify_token(token) == IF token.decodes THEN token.sub ELSE None

IsDigit(c) == \E i \in 1..Len(Digits) : Digits[i] = c
DigitValue(c) == (CHOOSE i \in 1..Len(Digits) : Digits[i] = c) - 1

\* int(subject) on a string of the characters above: ValueError (None) unless
\* it is a non-empty string of decimal digits
RECURSIVE ParseDigits(_, _)
ParseDigits(s, acc) ==
    IF s = <<>> THEN acc
    ELSE ParseDigits(Tail(s), 10 * acc + DigitValue(Head(s)))

ParseInt(s) ==
    IF Len(s) > 0 /\ \A i \in 1..Len(s) : IsDigit(s[i])
    THEN Some(ParseDigits(s, 0))
    ELSE None

credentials_exception ==
    [status |-> HTTP_401_UNAUTHORIZED, detail |-> "Could not validate credentials"]

Authenticated(user_id) == [status |-> 200, detail |-> "", user |-> user_id]

\* mutant: the is_active check is left out
get_current_user_any(credentials) ==
    IF IsNone(credentials) THEN credentials_exception
    ELSE LET subject == verify_token(Val(credentials))
         IN  IF IsNone(subject) THEN credentials_exception
             ELSE LET user_id == ParseInt(Val(subject))
                  IN  IF IsNone(user_id) THEN credentials_exception
                      ELSE IF Val(user_id) \notin DOMAIN users THEN credentials_exception
                      ELSE Authenticated(Val(user_id))

\* auth.get_current_user: the user returned or the HTTPException raised
get_current_user(credentials) ==
    IF IsNone(credentials) THEN credentials_exception
    ELSE LET subject == verify_token(Val(credentials))
         IN  IF IsNone(subject) THEN credentials_exception
             ELSE LET user_id == ParseInt(Val(subject))
                  IN  IF IsNone(user_id) THEN credentials_exception
                      ELSE IF Val(user_id) \notin DOMAIN users THEN credentials_exception
                      ELSE IF ~users[Val(user_id)].is_active
                           THEN [status |-> HTTP_400_BAD_REQUEST, detail |-> "Inactive user"]
                           ELSE Authenticated(Val(user_id))

\* a request that depends on get_current_user
Authenticate(credentials) ==
    /\ last' = [op |-> "get_current_user", id |-> 0, outcome |-> "none",
                details |-> NoDetails, credentials |-> credentials,
                result |-> get_current_user(credentials)]
    /\ UNCHANGED <<projects, goals, tasks, nextProjectId, nextGoalId, nextTaskId,
                   elsewhere>>

AuthInit ==
    /\ projects = <<>>
    /\ goals = <<>>
    /\ tasks = <<>>
    /\ nextProjectId = 1
    /\ nextGoalId = 1
    /\ nextTaskId = 1
    /\ last = Response("init", 0, 0, "none", NoDetails)
    /\ requests = [r \in Requests |-> Idle]
    /\ chores = <<>>
    /\ habits = <<>>
    /\ users \in UserTables

AuthNext == \E c \in Credentials : Authenticate(c)

SpecAuth == AuthInit /\ [][AuthNext]_vars

\* ------------------------------------------------- updates, two projects
\* The update calls on tables with NumSiblingProjects projects, as the create
\* calls leave them: up to MaxStored goals, each under one of the projects
\* and of that project's owner, and up to one task under the first goal.
NumSiblingProjects == 2

SiblingsInit ==
    /\ projects \in [1..NumSiblingProjects ->
                        [user_id : Users, weekly_hours : HoursInputs, status : {NOT_STARTED}]]
    /\ goals \in UNION {[1..n -> [user_id : Users, project_id : 1..NumSiblingProjects,
                                  weekly_hours : HoursInputs, status : {NOT_STARTED}]] :
                        n \in 0..MaxStored}
    /\ \A g \in DOMAIN goals : goals[g].user_id = projects[goals[g].project_id].user_id
    /\ \A p \in DOMAIN projects :
          SumRows(goals, GoalRowsOf(p, None)) <= projects[p].weekly_hours
    /\ tasks \in UNION {[1..n -> [user_id : Users, goal_id : {1},
                                  weekly_hours : HoursInputs, status : {NOT_STARTED}]] :
                        n \in 0..1}
    /\ \A t \in DOMAIN tasks :
          /\ tasks[t].goal_id \in DOMAIN goals
          /\ tasks[t].user_id = goals[tasks[t].goal_id].user_id
          /\ tasks[t].weekly_hours <= goals[tasks[t].goal_id].weekly_hours
    /\ nextProjectId = NumSiblingProjects + 1
    /\ nextGoalId = Len(goals) + 1
    /\ nextTaskId = Len(tasks) + 1
    /\ last = Response("init", 0, 0, "none", NoDetails)
    /\ requests = [r \in Requests |-> Idle]
    /\ chores = <<>>
    /\ habits = <<>>
    /\ users = Registered

SiblingsNext ==
    \/ \E u \in Users, p \in DOMAIN projects, d \in HoursPayloads : ProjectUpdate(u, p, d)
    \/ \E u \in Users, g \in DOMAIN goals, d \in HoursPayloads : GoalUpdate(u, g, d)
    \/ \E u \in Users, t \in DOMAIN tasks, d \in HoursPayloads : TaskUpdate(u, t, d)

SpecSiblings == SiblingsInit /\ [][SiblingsNext]_vars

\* =================================================================== claims
\* Allocation under a parent, summed row by row over the id range.
RECURSIVE GoalHoursUpTo(_, _, _, _)
GoalHoursUpTo(G, p, skip, n) ==
    IF n = 0 THEN 0
    ELSE GoalHoursUpTo(G, p, skip, n - 1)
         + (IF n \in DOMAIN G /\ n # skip /\ G[n].project_id = p
            THEN G[n].weekly_hours ELSE 0)

RECURSIVE TaskHoursUpTo(_, _, _, _)
TaskHoursUpTo(T, g, skip, n) ==
    IF n = 0 THEN 0
    ELSE TaskHoursUpTo(T, g, skip, n - 1)
         + (IF n \in DOMAIN T /\ n # skip /\ T[n].goal_id = g
            THEN T[n].weekly_hours ELSE 0)

\* sum of the hours of p's goals / of p's goals other than `skip` (0: none)
GoalSum(p) == GoalHoursUpTo(goals, p, 0, nextGoalId)
GoalSumExcept(p, skip) == GoalHoursUpTo(goals, p, skip, nextGoalId)
TaskSum(g) == TaskHoursUpTo(tasks, g, 0, nextTaskId)
TaskSumExcept(g, skip) == TaskHoursUpTo(tasks, g, skip, nextTaskId)

GoalsOf(p) == {g \in DOMAIN goals : goals[g].project_id = p}
TasksOf(g) == {t \in DOMAIN tasks : tasks[t].goal_id = g}

OwnsProject(u, p) == p \in DOMAIN projects /\ projects[p].user_id = u
OwnsGoal(u, g) == g \in DOMAIN goals /\ goals[g].user_id = u
OwnsTask(u, t) == t \in DOMAIN tasks /\ tasks[t].user_id = u

Exceeded(r) == r.outcome = "TimeAllocationExceeded"
StoreUnchanged == UNCHANGED <<projects, goals, tasks>>

\* an update payload that sets weekly_hours to h and nothing else
SetHours(h) == [weekly_hours |-> Some(h), status |-> None, fields_set |-> {"weekly_hours"}]

C3_GoalCreateOverCapacityFails ==
    [][\A u \in Users, p \in ProjectIds, h \in HoursInputs :
          (/\ last'.op = "goal_create"
           /\ OwnsProject(u, p)
           /\ GoalSum(p) + h > projects[p].weekly_hours
           /\ GoalCreate(u, p, h))
          => (Exceeded(last') /\ StoreUnchanged /\ nextGoalId' = nextGoalId)]_vars

\* C3 witness: a goal create was refused although its hours alone would fit:
\* the project's existing goals, all still stored, take up the room.
C3_Witness ==
    /\ last.op = "goal_create" /\ Exceeded(last)
    /\ last.id \in DOMAIN projects
    /\ GoalsOf(last.id) # {}
    /\ Val(last.details.requested_hours) <= projects[last.id].weekly_hours
    /\ Val(last.details.current_allocation) = GoalSum(last.id)

C5_ExcludeSelfUpdate ==
    [][\A u \in Users, g \in GoalIds, h \in HoursInputs :
          (/\ last'.op = "goal_update"
           /\ OwnsGoal(u, g)
           /\ GoalUpdate(u, g, SetHours(h)))
          => ((last'.outcome = "ok" /\ goals'[g].weekly_hours = h)
               <=> (/\ GoalSumExcept(goals[g].project_id, g) + h
                          <= projects[goals[g].project_id].weekly_hours
                    /\ h >= TaskSum(g)))]_vars

\* C5 witness: a goal with a sibling has been updated to 2 hours or more and
\* the project is now exactly full, so counting the goal's own previous hours
\* as well would have refused the update.
C5_Witness ==
    /\ last.op = "goal_update" /\ last.outcome = "ok"
    /\ last.id \in DOMAIN goals
    /\ goals[last.id].weekly_hours >= 2
    /\ GoalSumExcept(goals[last.id].project_id, last.id) > 0
    /\ GoalSum(goals[last.id].project_id) = projects[goals[last.id].project_id].weekly_hours

C7_ProjectShrinkGuard ==
    [][\A u \in Users, p \in ProjectIds, h \in HoursInputs :
          (/\ last'.op = "project_update"
           /\ OwnsProject(u, p)
           /\ ProjectUpdate(u, p, SetHours(h)))
          => IF h < GoalSum(p)
             THEN Exceeded(last') /\ StoreUnchanged
             ELSE last'.outcome = "ok" /\ projects'[p].weekly_hours = h]_vars

\* C7 witness: a project update asking for fewer hours than its goals hold
\* has been refused and the project still covers its goals.
C7_Witness ==
    /\ last.op = "project_update" /\ Exceeded(last)
    /\ last.id \in DOMAIN projects
    /\ Val(last.details.requested_hours) < GoalSum(last.id)
    /\ projects[last.id].weekly_hours >= GoalSum(last.id)

\* C8: an update of an owned goal that sets weekly_hours to h below the hours
\* of the goal's tasks raises TimeAllocationExceeded and leaves every row as
\* it was.
C8_GoalShrinkGuard ==
    [][\A u \in Users, g \in GoalIds, h \in HoursInputs :
          (/\ last'.op = "goal_update"
           /\ OwnsGoal(u, g)
           /\ h < TaskSum(g)
           /\ GoalUpdate(u, g, SetHours(h)))
          => (Exceeded(last') /\ StoreUnchanged)]_vars

\* C8 witness: a goal update was refused by the covers-own-tasks check (its
\* details name no project) although the requested hours fit under the project.
C8_Witness ==
    /\ last.op = "goal_update" /\ Exceeded(last)
    /\ IsNone(last.details.project_id)
    /\ last.id \in DOMAIN goals
    /\ Val(last.details.requested_hours) < TaskSum(last.id)
    /\ GoalSumExcept(goals[last.id].project_id, last.id) + Val(last.details.requested_hours)
          <= projects[goals[last.id].project_id].weekly_hours

\* C9: a task create under an owned goal whose hours, added to the hours of
\* the goal's tasks, exceed the goal's weekly_hours raises
\* TimeAllocationExceeded and leaves every row as it was; an update of an
\* owned task t that sets weekly_hours to h fails exactly when the hours of
\* the goal's other tasks plus h exceed the goal's weekly_hours.
C9_TaskFitsUnderGoal ==
    [][/\ \A u \in Users, g \in GoalIds, h \in HoursInputs :
            (/\ last'.op = "task_create"
             /\ OwnsGoal(u, g)
             /\ TaskSum(g) + h > goals[g].weekly_hours
             /\ TaskCreate(u, g, h))
            => (Exceeded(last') /\ StoreUnchanged /\ nextTaskId' = nextTaskId)
       /\ \A u \in Users, t \in TaskIds, h \in HoursInputs :
            (/\ last'.op = "task_update"
             /\ OwnsTask(u, t)
             /\ TaskUpdate(u, t, SetHours(h)))
            => IF TaskSumExcept(tasks[t].goal_id, t) + h > goals[tasks[t].goal_id].weekly_hours
               THEN Exceeded(last') /\ StoreUnchanged
               ELSE last'.outcome = "ok" /\ tasks'[t].weekly_hours = h]_vars

\* C9 witness: a task update was refused because the sibling tasks, the
\* updated task itself left out, leave too little room under the goal.
C9_Witness ==
    /\ last.op = "task_update" /\ Exceeded(last)
    /\ last.id \in DOMAIN tasks
    /\ Val(last.details.current_allocation) = TaskSumExcept(tasks[last.id].goal_id, last.id)
    /\ Val(last.details.current_allocation) > 0
    /\ Val(last.details.requested_hours) <= goals[tasks[last.id].goal_id].weekly_hours

\* C10: a goal (task) create whose parent is missing or belongs to another
\* user raises ValueError ("not found or access denied") whatever its hours,
\* never an allocation error, and writes nothing.
C10_ParentCheckedFirst ==
    [][/\ \A u \in Users, p \in ProjectIds, h \in HoursInputs :
            (/\ last'.op = "goal_create"
             /\ ~OwnsProject(u, p)
             /\ GoalCreate(u, p, h))
            => (last'.outcome = "ValueError" /\ StoreUnchanged /\ nextGoalId' = nextGoalId)
       /\ \A u \in Users, g \in GoalIds, h \in HoursInputs :
            (/\ last'.op = "task_create"
             /\ ~OwnsGoal(u, g)
             /\ TaskCreate(u, g, h))
            => (last'.outcome = "ValueError" /\ StoreUnchanged /\ nextTaskId' = nextTaskId)]_vars

\* C10 witness: a goal create by a user who does not own the (existing, full)
\* project ended in ValueError: the allocation check, which would have raised
\* for any hours, did not run first.
C10_Witness ==
    /\ last.op = "goal_create" /\ last.outcome = "ValueError"
    /\ last.id \in DOMAIN projects
    /\ GoalsOf(last.id) # {}
    /\ GoalSum(last.id) = projects[last.id].weekly_hours

\* the rows of every user other than u are stored after the step as before it
OthersUntouched(u) ==
    /\ \A p \in DOMAIN projects :
          projects[p].user_id # u => (p \in DOMAIN projects' /\ projects'[p] = projects[p])
    /\ \A g \in DOMAIN goals :
          goals[g].user_id # u => (g \in DOMAIN goals' /\ goals'[g] = goals[g])
    /\ \A t \in DOMAIN tasks :
          tasks[t].user_id # u => (t \in DOMAIN tasks' /\ tasks'[t] = tasks[t])

\* the step is a repository call made for user u
IssuedBy(u) ==
    \/ last'.op = "project_create" /\ \E h \in HoursInputs : ProjectCreate(u, h)
    \/ last'.op = "project_update" /\ \E d \in HoursPayloads : ProjectUpdate(u, last'.id, d)
    \/ last'.op = "project_delete" /\ ProjectDelete(u, last'.id)
    \/ last'.op = "goal_create" /\ \E h \in HoursInputs : GoalCreate(u, last'.id, h)
    \/ last'.op = "goal_update" /\ \E d \in HoursPayloads : GoalUpdate(u, last'.id, d)
    \/ last'.op = "goal_delete" /\ GoalDelete(u, last'.id)
    \/ last'.op = "task_create" /\ \E h \in HoursInputs : TaskCreate(u, last'.id, h)
    \/ last'.op = "task_update" /\ \E d \in HoursPayloads : TaskUpdate(u, last'.id, d)
    \/ last'.op = "task_delete" /\ TaskDelete(u, last'.id)

\* C11: an update (delete) of a project, goal or task that is missing or
\* owned by another user returns None (False) and leaves every stored row as
\* it was; and whatever call user u makes, every row of another user is
\* stored after it exactly as before.
C11_PerUserIsolation ==
    [][\A u \in Users :
          IssuedBy(u)
          => /\ OthersUntouched(u)
             /\ (last'.op \in {"project_update", "project_delete"} /\ ~OwnsProject(u, last'.id))
                => /\ last'.outcome = (IF last'.op = "project_update" THEN "None" ELSE "False")
                   /\ StoreUnchanged
             /\ (last'.op \in {"goal_update", "goal_delete"} /\ ~OwnsGoal(u, last'.id))
                => /\ last'.outcome = (IF last'.op = "goal_update" THEN "None" ELSE "False")
                   /\ StoreUnchanged
             /\ (last'.op \in {"task_update", "task_delete"} /\ ~OwnsTask(u, last'.id))
                => /\ last'.outcome = (IF last'.op = "task_update" THEN "None" ELSE "False")
                   /\ StoreUnchanged]_vars

\* C11 witness: a delete of a project that exists, has goals and belongs to
\* another user has returned False, and the project and its goals are still
\* stored.
C11_Witness ==
    /\ last.op = "project_delete" /\ last.outcome = "False"
    /\ last.id \in DOMAIN projects
    /\ GoalsOf(last.id) # {}

\* a goal of p is stored / a task of one of p's goals is stored
NoOrphans ==
    /\ \A g \in DOMAIN goals : goals[g].project_id \in DOMAIN projects
    /\ \A t \in DOMAIN tasks : tasks[t].goal_id \in DOMAIN goals

\* C12: a successful project delete leaves no goal of that project and no
\* task of such a goal, a successful goal delete leaves no task of that goal,
\* and after every step each stored goal's project_id names a stored project
\* and each stored task's goal_id names a stored goal.
C12_CascadeDelete ==
    [][/\ (last'.op = "project_delete" /\ last'.outcome = "True")
          => /\ last'.id \notin DOMAIN projects'
             /\ \A g \in DOMAIN goals : goals[g].project_id = last'.id => g \notin DOMAIN goals'
             /\ \A t \in DOMAIN tasks :
                   (tasks[t].goal_id \in DOMAIN goals
                      /\ goals[tasks[t].goal_id].project_id = last'.id)
                   => t \notin DOMAIN tasks'
       /\ (last'.op = "goal_delete" /\ last'.outcome = "True")
          => /\ last'.id \notin DOMAIN goals'
             /\ \A t \in DOMAIN tasks : tasks[t].goal_id = last'.id => t \notin DOMAIN tasks'
       /\ NoOrphans']_vars

\* C12 witness: a goal delete has succeeded in a store where two tasks were
\* created and one is left, under another goal that is still stored.
C12_Witness ==
    /\ last.op = "goal_delete" /\ last.outcome = "True"
    /\ nextTaskId = 3
    /\ Cardinality(DOMAIN tasks) = 1
    /\ Cardinality(DOMAIN goals) >= 1

\* C13: no step of a goal request waits for another request: a request that
\* has passed the ownership lookup can always validate, and a request that
\* has passed validation can always commit, whatever other requests have read
\* or written since.  (The witness is the overshoot this allows.)
C13_NoLockInValidateThenWrite ==
    \A r \in Requests :
        /\ requests[r].pc = "checked"
           => ENABLED (GoalCreateValidate(r) \/ GoalUpdateValidate(r))
        /\ requests[r].pc = "passed"
           => ENABLED (GoalCreateCommit(r) \/ GoalUpdateCommit(r))

\* C13 witness: both requests have committed and returned, and the goals of
\* a project now sum to more than the project's weekly_hours.
C13_Witness ==
    /\ \A r \in Requests : requests[r].pc = "idle"
    /\ \E p \in DOMAIN projects :
          /\ Cardinality(GoalsOf(p)) = 2
          /\ GoalSum(p) > projects[p].weekly_hours

HasValue(o) == ~IsNone(o)

\* C14: every TimeAllocationExceeded carries a parent id (project_id or
\* goal_id), current_allocation, requested_hours and available_hours.
C14_AllFourDetailFields ==
    Exceeded(last)
    => /\ HasValue(last.details.project_id) \/ HasValue(last.details.goal_id)
       /\ HasValue(last.details.current_allocation)
       /\ HasValue(last.details.requested_hours)
       /\ HasValue(last.details.available_hours)

\* C15: a request whose repository call raised TimeAllocationExceeded is
\* answered with status 422, code TIME_ALLOCATION_EXCEEDED and the
\* exception's details in the error body.
C15_ExceededAnsweredWith422 ==
    Exceeded(last)
    => HttpResponse(last) =
          create_error_response(HTTP_422_UNPROCESSABLE_ENTITY, "TIME_ALLOCATION_EXCEEDED",
                                last.details)

IntervalDays(item) ==
    CASE item.frequency_type = DAILY -> 1
      [] item.frequency_type = WEEKLY -> 7
      [] item.frequency_type = BIWEEKLY -> 14
      [] item.frequency_type = MONTHLY -> 30
      [] item.frequency_type = CUSTOM -> item.frequency_value

\* the step completes chore `last'.id` / habit `last'.id` with date `last'.date`
ChoreCompleted ==
    /\ last'.op = "complete_chore"
    /\ complete_chore(last'.id, Some(last'.date), last'.date)

HabitCompleted ==
    /\ last'.op = "complete_habit"
    /\ complete_habit(last'.id, Some(last'.date), last'.date)

\* C17: a completion of a chore or habit with date d sets next_due_date to d
\* plus 1 (DAILY), 7 (WEEKLY), 14 (BIWEEKLY), 30 (MONTHLY) or frequency_value
\* (CUSTOM) days, whatever next_due_date was; with 2025-01-01 as day 0, a
\* CUSTOM item of frequency_value 30 completed that day is next due on day 30,
\* 2025-01-31.
C17_NextDueFromCompletionDate ==
    [][/\ ChoreCompleted
          => chores'[last'.id].next_due_date = last'.date + IntervalDays(chores[last'.id])
       /\ HabitCompleted
          => habits'[last'.id].next_due_date = last'.date + IntervalDays(habits[last'.id])
       /\ calculate_next_due_date(
              [frequency_type |-> CUSTOM, frequency_value |-> 30,
               next_due_date |-> 0, last_completed_date |-> None],
              Some(0), 0) = 30]_vars

\* C17 witness: a MONTHLY chore that had been completed before (so its due
\* date was 30 days after that completion) has been completed with day 1 and
\* is next due on day 31.
C17_Witness ==
    /\ last.op = "complete_chore"
    /\ chores[last.id].frequency_type = MONTHLY
    /\ ~IsNone(last.before.last_completed_date)
    /\ last.before.next_due_date > 31
    /\ last.date = 1
    /\ chores[last.id].next_due_date = 31

\* C18: right after a completion of a chore or habit with date d, whatever
\* the item's status was (NOT_STARTED, IN_PROGRESS or COMPLETED), its status
\* is NOT_STARTED and its last_completed_date is d, and the item can be
\* completed again (a habit as long as its streak is below MaxStreak).
C18_CompletionResetsStatus ==
    /\ last.op = "complete_chore"
       => /\ last.before.status \in TaskStatus
          /\ chores[last.id].status = NOT_STARTED
          /\ chores[last.id].last_completed_date = Some(last.date)
          /\ \A t \in Days : ENABLED complete_chore(last.id, Some(t), t)
    /\ last.op = "complete_habit"
       => /\ last.before.status \in TaskStatus
          /\ habits[last.id].status = NOT_STARTED
          /\ habits[last.id].last_completed_date = Some(last.date)
          /\ habits[last.id].streak_count < MaxStreak
             => \A t \in Days : ENABLED complete_habit(last.id, Some(t), t)

\* C18 witness: a chore whose status was COMPLETED has been completed; its
\* status is NOT_STARTED and its last_completed_date is the completion date.
C18_Witness ==
    /\ last.op = "complete_chore"
    /\ last.before.status = COMPLETED
    /\ chores[last.id].status = NOT_STARTED
    /\ chores[last.id].last_completed_date = Some(last.date)

CompletedNextDay ==
    /\ HabitCompleted
    /\ habits[last'.id].last_completed_date = Some(last'.date - 1)

IsUtilization(q, allocated, total) ==
    /\ q.den # 0
    /\ IF total = 0 THEN q.num = 0
       ELSE q.num * total = allocated * 100 * q.den

\* C21: a summary call by the parent's owner changes no stored row and returns
\* total_hours = the parent's weekly_hours, allocated_hours = the sum of its
\* children's hours (0 without children), available_hours = total - allocated,
\* the number of children, and utilization_percentage = allocated / total *
\* 100, which is 0 and not an error when total_hours is 0.
C21_AllocationSummary ==
    [][/\ last'.op \in {"project_allocation", "goal_allocation"}
          => UNCHANGED <<projects, goals, tasks, nextProjectId, nextGoalId, nextTaskId>>
       /\ \A u \in Users :
            /\ (/\ last'.op = "project_allocation"
                /\ OwnsProject(u, last'.id)
                /\ ProjectGetAllocationSummary(u, last'.id))
               => /\ last'.outcome = "ok"
                  /\ last'.summary.total_hours = projects[last'.id].weekly_hours
                  /\ last'.summary.allocated_hours = GoalSum(last'.id)
                  /\ GoalsOf(last'.id) = {} => last'.summary.allocated_hours = 0
                  /\ last'.summary.available_hours
                       = projects[last'.id].weekly_hours - GoalSum(last'.id)
                  /\ last'.summary.count = Cardinality(GoalsOf(last'.id))
                  /\ IsUtilization(last'.summary.utilization_percentage,
                                   GoalSum(last'.id), projects[last'.id].weekly_hours)
            /\ (/\ last'.op = "goal_allocation"
                /\ OwnsGoal(u, last'.id)
                /\ GoalGetAllocationSummary(u, last'.id))
               => /\ last'.outcome = "ok"
                  /\ last'.summary.total_hours = goals[last'.id].weekly_hours
                  /\ last'.summary.allocated_hours = TaskSum(last'.id)
                  /\ TasksOf(last'.id) = {} => last'.summary.allocated_hours = 0
                  /\ last'.summary.available_hours
                       = goals[last'.id].weekly_hours - TaskSum(last'.id)
                  /\ last'.summary.count = Cardinality(TasksOf(last'.id))
                  /\ IsUtilization(last'.summary.utilization_percentage,
                                   TaskSum(last'.id), goals[last'.id].weekly_hours)]_vars

\* C21 witness: the summary of a project of 0 hours that has goals with hours
\* has been returned, with utilization 0.
C21_Witness ==
    /\ last.op = "project_allocation"
    /\ last.outcome = "ok"
    /\ projects[last.id].weekly_hours = 0
    /\ GoalSum(last.id) > 0
    /\ last.summary.allocated_hours = GoalSum(last.id)
    /\ last.summary.utilization_percentage.num = 0

ValidatorCalls ==
    {"validate_goal_hours_for_project", "validate_task_hours_for_goal",
     "validate_project_hours_update", "validate_goal_hours_update"}

\* C22: a call of one of the four validators, whether it returns or raises,
\* leaves every stored project, goal and task as it was.
C22_ValidatorsReadOnly ==
    [][last'.op \in ValidatorCalls
       => /\ last'.outcome \in {"ok", "TimeAllocationExceeded", "ResourceNotFound"}
          /\ projects' = projects
          /\ goals' = goals
          /\ tasks' = tasks]_vars

\* C22 witness: validate_project_hours_update has raised for a project with
\* two goals whose hours sum to more than the hours asked for.
C22_Witness ==
    /\ last.op = "validate_project_hours_update"
    /\ last.outcome = "TimeAllocationExceeded"
    /\ Cardinality(GoalsOf(last.id)) = 2
    /\ Val(last.details.requested_hours) < GoalSum(last.id)

\* the update payloads without weekly_hours
FieldPayloads == {d \in UpdatePayloads : "weekly_hours" \notin d.fields_set}

\* the row with exactly the payload's fields applied
WithFields(row, d) ==
    IF "status" \in d.fields_set THEN [row EXCEPT !.status = Val(d.status)] ELSE row

\* C23: an update of an owned project, goal or task whose payload has no
\* weekly_hours always succeeds, applies exactly the payload's fields, and
\* leaves weekly_hours and every other row unchanged.
C23_FieldUpdateAlwaysSucceeds ==
    [][\A u \in Users, d \in FieldPayloads :
         /\ (/\ last'.op = "project_update"
             /\ OwnsProject(u, last'.id)
             /\ ProjectUpdate(u, last'.id, d))
            => /\ last'.outcome = "ok"
               /\ projects' = [projects EXCEPT ![last'.id] = WithFields(@, d)]
               /\ UNCHANGED <<goals, tasks>>
         /\ (/\ last'.op = "goal_update"
             /\ OwnsGoal(u, last'.id)
             /\ GoalUpdate(u, last'.id, d))
            => /\ last'.outcome = "ok"
               /\ goals' = [goals EXCEPT ![last'.id] = WithFields(@, d)]
               /\ UNCHANGED <<projects, tasks>>
         /\ (/\ last'.op = "task_update"
             /\ OwnsTask(u, last'.id)
             /\ TaskUpdate(u, last'.id, d))
            => /\ last'.outcome = "ok"
               /\ tasks' = [tasks EXCEPT ![last'.id] = WithFields(@, d)]
               /\ UNCHANGED <<projects, goals>>]_vars

\* C24: no stored chore or habit has a frequency_type other than CUSTOM
\* together with a frequency_value other than 1.
C24_NonCustomValueIsOne ==
    /\ \A c \in DOMAIN chores :
          chores[c].frequency_type # CUSTOM => chores[c].frequency_value = 1
    /\ \A h \in DOMAIN habits :
          habits[h].frequency_type # CUSTOM => habits[h].frequency_value = 1

\* the string s is the decimal numeral of n, leading zeros allowed
RECURSIVE PowerOfTen(_)
PowerOfTen(k) == IF k = 0 THEN 1 ELSE 10 * PowerOfTen(k - 1)

RECURSIVE PositionalValue(_, _)
PositionalValue(s, i) ==
    IF i > Len(s) THEN 0
    ELSE (CASE s[i] = "0" -> 0 [] s[i] = "1" -> 1 [] s[i] = "2" -> 2)
             * PowerOfTen(Len(s) - i)
         + PositionalValue(s, i + 1)

IsNumeral(s) == Len(s) > 0 /\ \A i \in 1..Len(s) : s[i] \in {"0", "1", "2"}

\* the stored user that the credentials name, if any
NamedUsers(c) ==
    IF IsNone(c) \/ ~Val(c).decodes \/ IsNone(Val(c).sub) \/ ~IsNumeral(Val(Val(c).sub))
    THEN {}
    ELSE {u \in DOMAIN users : u = PositionalValue(Val(Val(c).sub), 1)}

\* C25: get_current_user returns the stored user when credentials are
\* present, the token verifies, its subject parses as an integer, a user with
\* that id exists and is active; it answers 400 'Inactive user' when all but
\* the last hold, and 401 'Could not validate credentials' in every other
\* case.
C25_GetCurrentUser ==
    last.op = "get_current_user"
    => LET named == NamedUsers(last.credentials)
       IN  /\ named = {}
              => /\ last.result.status = 401
                 /\ last.result.detail = "Could not validate credentials"
           /\ \A u \in named :
                 IF users[u].is_active
                 THEN last.result.status = 200 /\ last.result.user = u
                 ELSE /\ last.result.status = 400
                      /\ last.result.detail = "Inactive user"

\* C25 witness: a token that verifies, with subject "02", has been presented
\* while user 2 is stored and inactive, and the answer is 400.
C25_Witness ==
    /\ last.op = "get_current_user"
    /\ last.credentials = Some([decodes |-> TRUE, sub |-> Some(<<"0", "2">>)])
    /\ 2 \in DOMAIN users
    /\ ~users[2].is_active
    /\ last.result.status = 400

\* C26: in every reachable state every goal's parent project is stored and
\* has the goal's user_id, and every task's parent goal is stored and has the
\* task's user_id.
C26_OwnershipDownTheHierarchy ==
    /\ \A g \in DOMAIN goals :
          /\ goals[g].project_id \in DOMAIN projects
          /\ goals[g].user_id = projects[goals[g].project_id].user_id
    /\ \A t \in DOMAIN tasks :
          /\ tasks[t].goal_id \in DOMAIN goals
          /\ tasks[t].user_id = goals[tasks[t].goal_id].user_id

\* C26 witness: a user has just been refused a goal under another user's
\* project, which has a goal and a task of its owner.
C26_Witness ==
    /\ last.op = "goal_create"
    /\ last.outcome = "ValueError"
    /\ last.id \in DOMAIN projects
    /\ \E g \in DOMAIN goals, t \in DOMAIN tasks :
          /\ goals[g].project_id = last.id
          /\ tasks[t].goal_id = g
          /\ tasks[t].user_id = projects[last.id].user_id

\* the hours of the tasks under the goals of project p, summed task by task
RECURSIVE TaskHoursUnderUpTo(_, _)
TaskHoursUnderUpTo(p, n) ==
    IF n = 0 THEN 0
    ELSE TaskHoursUnderUpTo(p, n - 1)
         + (IF /\ n \in DOMAIN tasks
               /\ tasks[n].goal_id \in DOMAIN goals
               /\ goals[tasks[n].goal_id].project_id = p
            THEN tasks[n].weekly_hours ELSE 0)

TaskSumUnder(p) == TaskHoursUnderUpTo(p, nextTaskId)

C28_NoReparenting ==
    [][last'.op \in {"project_update", "goal_update", "task_update"}
       => /\ DOMAIN projects' = DOMAIN projects
          /\ DOMAIN goals' = DOMAIN goals
          /\ DOMAIN tasks' = DOMAIN tasks
          /\ \A p \in DOMAIN projects : projects'[p].user_id = projects[p].user_id
          /\ \A g \in DOMAIN goals :
                /\ goals'[g].project_id = goals[g].project_id
                /\ goals'[g].user_id = goals[g].user_id
          /\ \A t \in DOMAIN tasks :
                /\ tasks'[t].goal_id = tasks[t].goal_id
                /\ tasks'[t].user_id = tasks[t].user_id
          /\ last'.op = "goal_update"
             => \A p \in DOMAIN projects :
                   (last'.id \in DOMAIN goals => p # goals[last'.id].project_id)
                   => GoalHoursUpTo(goals', p, 0, nextGoalId)
                        = GoalHoursUpTo(goals, p, 0, nextGoalId)]_vars

\* C28 witness: a goal update has succeeded and left its project exactly at
\* capacity, while another project of the same owner has a goal and room.
C28_Witness ==
    /\ last.op = "goal_update"
    /\ last.outcome = "ok"
    /\ GoalSum(goals[last.id].project_id) = projects[goals[last.id].project_id].weekly_hours
    /\ \E g \in DOMAIN goals :
          /\ goals[g].project_id # goals[last.id].project_id
          /\ goals[g].user_id = goals[last.id].user_id
          /\ GoalSum(goals[g].project_id) < projects[goals[g].project_id].weekly_hours

\* C29: every chore or habit that has been completed has a next_due_date
\* strictly later than its last_completed_date, and right after a completion
\* with date d the item is not among those due on d.
C29_NextDueAfterLastCompleted ==
    /\ \A c \in DOMAIN chores :
          ~IsNone(chores[c].last_completed_date)
          => chores[c].next_due_date > Val(chores[c].last_completed_date)
    /\ \A h \in DOMAIN habits :
          ~IsNone(habits[h].last_completed_date)
          => habits[h].next_due_date > Val(habits[h].last_completed_date)
    /\ last.op = "complete_chore"
       => /\ chores[last.id].last_completed_date = Some(last.date)
          /\ last.id \notin get_due_chores(Some(last.date), last.date)
          /\ last.id \notin get_due_chores(None, last.date)
    /\ last.op = "complete_habit"
       => /\ habits[last.id].last_completed_date = Some(last.date)
          /\ last.id \notin get_due_habits(Some(last.date), last.date)
          /\ last.id \notin get_due_habits(None, last.date)

\* C29 witness: a CUSTOM chore of frequency_value 1 that was due on day d has
\* been completed with date d and is next due on d + 1.
C29_Witness ==
    /\ last.op = "complete_chore"
    /\ chores[last.id].frequency_type = CUSTOM
    /\ chores[last.id].frequency_value = 1
    /\ last.before.next_due_date <= last.date
    /\ chores[last.id].next_due_date = last.date + 1
    /\ last.id \notin get_due_chores(Some(last.date), last.date)

====
